---------------------------- MODULE Spec2Model ----------------------------
(***************************************************************************)
(* A model of the DICOM series resolver and volume reconstruction engine   *)
(* of DCM2VDB (src/extension): file classification, 4D series resolution,  *)
(* the patient load operator, volume assembly and the patient record.      *)
(*                                                                         *)
(* Conventions.  A Python value that may be None, or a header attribute    *)
(* that may be absent, is a sequence of length at most one: << >> is       *)
(* None/absent and <<v>> is the value v.  A Python list or tuple is a      *)
(* sequence; Python's 0-based index k is index k+1 here.                   *)
(***************************************************************************)
EXTENDS Integers, Sequences, FiniteSets, TLC

VARIABLES
    cFile,      \* classification: the file handed to classify_dicom_file
    cLabel,     \* classification: the value returned (or "raised")
    cPc,        \* classification: "start" | "done"
    rFiles,     \* resolver: the file_paths handed to organize_by_series
    rAnalysis,  \* resolver: the series_data of analyze_series_for_4d
    rSeries,    \* resolver: the series_list organize_by_series returns
    rPc,        \* resolver: "start" | "done"
    pSpec,      \* patient record: the model to build (its series, as arguments)
    pModel,     \* patient record: the Patient object built, None before
    pText,      \* patient record: to_json(pModel), None before
    pRestored,  \* patient record: from_json(pText), None before
    pText2,     \* patient record: to_json(pRestored), None before
    pPc,        \* patient record: "spec" | "built" | "serialized" |
                \*   "restored" | "reserialized" | "error"
    lDecoder,      \* load: PYDICOM_AVAILABLE
    lDir,          \* load: the directory the operator last ran on
    scenePatient,  \* load: scene.dicom_patient_data (None is the empty string)
    lResult,       \* load: what the operator returned ("none" before a run)
    lReport,       \* load: the error it reported ("none" without one)
    lGrouped,      \* load: whether that run called organize_by_series
    lBefore,    \* load: the scene before the operator ran: record, tool, objects
    lTool,      \* load: scene.dicom_active_tool
    lObjects,   \* load: the names of the objects in bpy.data.objects
    lFolder,    \* load: what load_patient_from_folder gave when called on
                \*   the directory's files, None before
    vSlices,    \* volume: the slices handed to create_volume
    vEnv,       \* volume: the scene create_volume runs in, and whether scipy imports
    vOut,       \* volume: what create_volume raised, saved and wrote
    vPc,        \* volume: "start" | "done"
    sFile,      \* slice loading: the file handed to load_slice
    sOut,       \* slice loading: what load_slice raised or returned
    sPc,        \* slice loading: "start" | "done"
    aScene,     \* assembly session: the scene the calls run in
    aLog,       \* assembly session: the file paths written, in order
    aObjects,   \* assembly session: the volume objects in bpy.data.objects
    aNext,      \* assembly session: the number of the next call
    aLast,      \* assembly session: the outcome of the last call
    mArray,     \* tissue volume: the samples of vol_array
    mMin,       \* tissue volume: hu_min
    mMax,       \* tissue volume: hu_max
    mSpacing,   \* tissue volume: pixel_spacing and slice_thickness
    mOut,       \* tissue volume: the value returned
    mArrayAfter,  \* tissue volume: vol_array after the call
    mPc,        \* tissue volume: "start" | "done"
    oScene,     \* operators: the properties the scene has
    oData,      \* operators: scene.dicom_patient_data (None is the empty string)
    oTool,      \* operators: scene.dicom_active_tool
    oDisk,      \* operators: what load_slice does with each file path
    oObjects,   \* operators: the names of the volume objects in the scene
    oLast,      \* operators: the outcome of the last operator run
    tTemplate,  \* landmarks: scene.dicom_measurement_template
    tLandmarks, \* landmarks: scene.dicom_landmarks
    tMeasurements,  \* landmarks: scene.dicom_measurements
    tActive,    \* landmarks: scene.dicom_active_landmark_index
    tLast       \* landmarks: the outcome of the last operator run

cvars == <<cFile, cLabel, cPc>>

rvars == <<rFiles, rAnalysis, rSeries, rPc>>

pvars == <<pSpec, pModel, pText, pRestored, pText2, pPc>>

lvars == <<lDecoder, lDir, scenePatient, lResult, lReport, lGrouped,
          lBefore, lTool, lObjects, lFolder>>

vvars == <<vSlices, vEnv, vOut, vPc>>

svars == <<sFile, sOut, sPc>>

avars == <<aScene, aLog, aObjects, aNext, aLast>>

mvars == <<mArray, mMin, mMax, mSpacing, mOut, mArrayAfter, mPc>>

ovars == <<oScene, oData, oTool, oDisk, oObjects, oLast>>

tvars == <<tTemplate, tLandmarks, tMeasurements, tActive, tLast>>

vars == <<cFile, cLabel, cPc, rFiles, rAnalysis, rSeries, rPc,
          pSpec, pModel, pText, pRestored, pText2, pPc,
          lDecoder, lDir, scenePatient, lResult, lReport, lGrouped,
          lBefore, lTool, lObjects, lFolder,
          vSlices, vEnv, vOut, vPc, sFile, sOut, sPc,
          aScene, aLog, aObjects, aNext, aLast,
          mArray, mMin, mMax, mSpacing, mOut, mArrayAfter, mPc,
          oScene, oData, oTool, oDisk, oObjects, oLast,
          tTemplate, tLandmarks, tMeasurements, tActive, tLast>>

(***************************************************************************)
(* Generic helpers                                                         *)
(***************************************************************************)
None == << >>

Some(v) == <<v>>

IsNone(x) == Len(x) = 0

SeqsUpTo(S, lo, hi) == UNION {[1..n -> S] : n \in lo..hi}

(***************************************************************************)
(* FileClassifier: dicom_io.classify_dicom_file                            *)
(***************************************************************************)
MaxImageTypeLen == 3

SOP_CLASS_SECONDARY_CAPTURE == "1.2.840.10008.5.1.4.1.1.7"

SOP_CLASS_CT_IMAGE == "1.2.840.10008.5.1.4.1.1.2"

CodeStrings == {"ORIGINAL", "DERIVED", "PRIMARY", "SECONDARY"}

\* The characters of the code strings an ImageType component can hold: a
\* single-valued attribute is handed out by the decoder as a plain str, and
\* len() and [] of a str work on its characters.
CharsOf(s) ==
    CASE s = "ORIGINAL"  -> <<"O", "R", "I", "G", "I", "N", "A", "L">>
      [] s = "DERIVED"   -> <<"D", "E", "R", "I", "V", "E", "D">>
      [] s = "PRIMARY"   -> <<"P", "R", "I", "M", "A", "R", "Y">>
      [] s = "SECONDARY" -> <<"S", "E", "C", "O", "N", "D", "A", "R", "Y">>
      [] OTHER           -> << >>

\* The ImageType attribute of a header as the decoder presents it:
\*   kind "absent": hasattr(ds, 'ImageType') is False
\*   kind "malformed": present, but its value does not decode: reading
\*                  the attribute raises
\*   kind "str"   : present with one value (or the empty string): a str
\*   kind "multi" : present with two or more values: a list of str
ImageTypes ==
    {[kind |-> "absent", comps |-> << >>], [kind |-> "malformed", comps |-> << >>]}
    \cup {[kind |-> "str", comps |-> <<s>>] : s \in CodeStrings \cup {""}}
    \cup {[kind |-> "multi", comps |-> c] : c \in SeqsUpTo(CodeStrings, 2, MaxImageTypeLen)}

\* What `image_type = ds.ImageType` evaluates to, as the sequence len() and
\* [] act on.
ImageTypeValue(it) ==
    IF it.kind = "str" THEN CharsOf(it.comps[1]) ELSE it.comps

ClassifyFiles ==
    [readable : BOOLEAN, hasRows : BOOLEAN, hasColumns : BOOLEAN,
     sop : {None, Some(SOP_CLASS_SECONDARY_CAPTURE), Some(SOP_CLASS_CT_IMAGE)},
     imageType : ImageTypes]

\* The checks of ImageType (lines 46-57), the attribute being present.
ImageTypeLabel(it) ==
    IF it.kind = "malformed" THEN "EXC"                         \* access raises
    ELSE LET image_type == ImageTypeValue(it) IN
         IF Len(image_type) > 1
         THEN IF image_type[2] = "PRIMARY" THEN "primary"
              ELSE IF image_type[2] = "SECONDARY" THEN "secondary"
              ELSE IF image_type[1] = "DERIVED" THEN "secondary"
              ELSE "primary"
         ELSE "primary"

\* A classifier that looks at ImageType before the SOP class.
ClassifyBodyImageTypeFirst(f) ==
    IF ~f.readable THEN "EXC"
    ELSE IF ~f.hasRows \/ ~f.hasColumns THEN "non_image"
    ELSE IF f.imageType.kind = "multi" /\ f.imageType.comps[2] = "PRIMARY" THEN "primary"
    ELSE IF ~IsNone(f.sop) /\ f.sop[1] = SOP_CLASS_SECONDARY_CAPTURE THEN "secondary"
    ELSE IF f.imageType.kind = "absent" THEN "primary"
    ELSE ImageTypeLabel(f.imageType)

\* The body of the try block (lines 34-57): a label, or "EXC" when a
\* statement raises.
ClassifyBody(f) ==
    IF ~f.readable THEN "EXC"                                   \* dcmread raises
    ELSE IF ~f.hasRows \/ ~f.hasColumns THEN "non_image"
    ELSE IF ~IsNone(f.sop) /\ f.sop[1] = SOP_CLASS_SECONDARY_CAPTURE THEN "secondary"
    ELSE IF f.imageType.kind = "absent" THEN "primary"
    ELSE ImageTypeLabel(f.imageType)

\* `except Exception` turns every failure of the body into 'invalid'.
ClassifyHandlerReraise(r) == IF r = "EXC" THEN "raised" ELSE r

ClassifyHandler(r) == IF r = "EXC" THEN "invalid" ELSE r

classify_dicom_file(f) == ClassifyHandler(ClassifyBody(f))

ClassifyInit ==
    /\ cFile \in ClassifyFiles
    /\ cLabel = "none"
    /\ cPc = "start"

Classify ==
    /\ cPc = "start"
    /\ cLabel' = classify_dicom_file(cFile)
    /\ cPc' = "done"
    /\ UNCHANGED cFile

Labels == {"primary", "secondary", "non_image", "invalid"}

IsSecondaryCapture(f) == f.sop = Some(SOP_CLASS_SECONDARY_CAPTURE)

\* The header decoded and the checks of Rows/Columns and of the SOP class
\* let it through to the ImageType checks.
ReachesImageType(f) ==
    f.readable /\ f.hasRows /\ f.hasColumns /\ ~IsSecondaryCapture(f)

\* C7: a decoded header lacking Rows or Columns is labelled non_image
\* whatever its SOP class and ImageType; a decoded header with both whose SOP
\* class is Secondary Capture is labelled secondary whatever its ImageType.
C7_Precedence ==
    (cPc = "done" /\ cFile.readable) =>
        /\ (~cFile.hasRows \/ ~cFile.hasColumns) => cLabel = "non_image"
        /\ (cFile.hasRows /\ cFile.hasColumns /\ IsSecondaryCapture(cFile))
              => cLabel = "secondary"

C7_Witness ==
    /\ cPc = "done" /\ cFile.readable
    /\ cFile.hasRows /\ cFile.hasColumns /\ IsSecondaryCapture(cFile)
    /\ cFile.imageType.kind = "multi" /\ cFile.imageType.comps[2] = "PRIMARY"
    /\ cLabel = "secondary"

\* The label the ImageType rule gives to the components of a decoded
\* ImageType, whatever their number.
LabelByComponents(comps) ==
    IF Len(comps) >= 2 /\ comps[2] = "PRIMARY" THEN "primary"
    ELSE IF Len(comps) >= 2 /\ comps[2] = "SECONDARY" THEN "secondary"
    ELSE IF Len(comps) >= 1 /\ comps[1] = "DERIVED" THEN "secondary"
    ELSE "primary"

\* C8: with Rows and Columns present and a SOP class other than Secondary
\* Capture, the label follows from the ImageType components alone: second
\* component PRIMARY gives primary, SECONDARY gives secondary, otherwise a
\* first component DERIVED gives secondary, for an ImageType of any length
\* (a single-valued one included); absent or inconclusive gives primary.
C8_ImageTypeDecides ==
    (cPc = "done" /\ ReachesImageType(cFile) /\ cFile.imageType.kind # "malformed")
        => cLabel = LabelByComponents(cFile.imageType.comps)

\* C9: classify_dicom_file returns one of the four labels for every file,
\* and a failure while reading or inspecting the header gives invalid.
ClassifyFailure(f) ==
    \/ ~f.readable
    \/ ReachesImageType(f) /\ f.imageType.kind = "malformed"

C9_NeverRaises ==
    cPc = "done" =>
        /\ cLabel \in Labels
        /\ ClassifyFailure(cFile) => cLabel = "invalid"

C9_Witness ==
    /\ cPc = "done" /\ ReachesImageType(cFile)
    /\ cFile.imageType.kind = "malformed"
    /\ cLabel = "invalid"

(***************************************************************************)
(* SeriesResolver: dicom_io.analyze_series_for_4d, organize_by_series      *)
(***************************************************************************)
MaxFiles == 3

\* The values the attributes of the model's headers take.  A header without
\* SeriesInstanceUID is filed under 'UNKNOWN', which gives a second series.
SeriesUIDs == {"A"}

AcquisitionNumbers == {0, 1, 2}

InstanceNumbers == {1, 2}

\* A candidate file as the header scan sees it.  A file whose header does
\* not decode carries nothing else.  The path of a file is its index in the
\* input list.
ResolveFiles ==
    {[readable |-> FALSE, uid |-> None, acq |-> None, inst |-> None]}
    \cup [readable : {TRUE},
          uid : {None} \cup {Some(u) : u \in SeriesUIDs},
          acq : {None} \cup {Some(a) : a \in AcquisitionNumbers},
          inst : {None} \cup {Some(i) : i \in InstanceNumbers}]

\* getattr(ds, 'SeriesInstanceUID', 'UNKNOWN')
SeriesUidOf(f) == IF IsNone(f.uid) THEN "UNKNOWN" ELSE f.uid[1]

\* getattr(ds, 'SeriesNumber', 0): each series of the model carries one
\* series number on all its files; files without a series UID have none.
SeriesNumberOf(uid) ==
    IF uid = "A" THEN 1 ELSE 0

\* The key files_by_acquisition files a header under (lines 124-145).
AcquisitionKey(f) == IF IsNone(f.acq) THEN 0 ELSE f.acq[1]

\* sorted(): the list in ascending order of its integers.
RECURSIVE SortedSeqOf(_)
SortedSeqOf(S) ==
    IF S = {} THEN << >>
    ELSE LET m == CHOOSE x \in S : \A y \in S : x <= y
         IN  <<m>> \o SortedSeqOf(S \ {m})

\* list.sort(key=...) / sorted(key=...): Python's sort is stable, so an
\* element's place is the number of elements with a smaller key, or with an
\* equal key and an earlier place in the input.
\* keys[i] is the key of s[i].  (The operators below that take a computed
\* value bind it once, as the element of a singleton set.)
StableSortBy(s, keys) ==
    LET Sorted(sv, kv) ==
            LET n == Len(sv)
                rank(i) == Cardinality({j \in 1..n :
                               \/ kv[j] < kv[i]
                               \/ kv[j] = kv[i] /\ j < i}) + 1
            IN  [p \in 1..n |-> sv[CHOOSE i \in 1..n : rank(i) = p]]
    IN  CHOOSE r \in {Sorted(a[1], a[2]) : a \in {<<s, keys>>}} : TRUE

\* One iteration of the loop over file_paths (lines 104-148): sd is
\* [order |-> series UIDs in insertion order,
\*  data  |-> uid -> [acqs, keys (insertion order), byAcq (key -> paths)]].
AnalyzeOne(files, i, sd) ==
    LET f == files[i] IN
    IF ~f.readable THEN sd                      \* dcmread raises: logged, skipped
    ELSE
      LET uid  == SeriesUidOf(f)
          new  == uid \notin DOMAIN sd.data
          old  == IF new
                  THEN [acqs |-> {}, keys |-> << >>, byAcq |-> << >>]
                  ELSE sd.data[uid]
          key  == AcquisitionKey(f)
          pos  == IF \E k \in 1..Len(old.keys) : old.keys[k] = key
                  THEN CHOOSE k \in 1..Len(old.keys) : old.keys[k] = key
                  ELSE Len(old.keys) + 1
          upd  == [acqs  |-> IF IsNone(f.acq) THEN old.acqs ELSE old.acqs \cup {f.acq[1]},
                   keys  |-> IF pos > Len(old.keys) THEN Append(old.keys, key) ELSE old.keys,
                   byAcq |-> IF pos > Len(old.keys)
                             THEN Append(old.byAcq, <<i>>)
                             ELSE [old.byAcq EXCEPT ![pos] = Append(@, i)]]
      IN [order |-> IF new THEN Append(sd.order, uid) ELSE sd.order,
          data  |-> IF new THEN sd.data @@ (uid :> upd)
                    ELSE [sd.data EXCEPT ![uid] = upd]]

RECURSIVE AnalyzeFrom(_, _, _)
AnalyzeFrom(files, i, sd) ==
    IF i > Len(files) THEN sd
    ELSE AnalyzeFrom(files, i + 1, AnalyzeOne(files, i, sd))

\* A 4D test that counts the acquisition numbers seen instead of the groups.
Is4DByAcquisitionNumbers(d) == Cardinality(d.acqs) > 1

\* is_4d (lines 151-153)
Is4D(d) == Len(d.keys) > 1

\* analyze_series_for_4d: the loop, then is_4d and the sorted acquisition
\* numbers of every series (lines 150-156).
analyze_series_for_4d(files) ==
    CHOOSE r \in
      {[order |-> sd.order,
        data  |-> [u \in DOMAIN sd.data |->
                     [is_4d |-> Is4D(sd.data[u]),
                      acquisition_numbers |-> SortedSeqOf(sd.data[u].acqs),
                      keys  |-> sd.data[u].keys,
                      byAcq |-> sd.data[u].byAcq]]] :
       sd \in {AnalyzeFrom(files, 1, [order |-> << >>, data |-> << >>])}} : TRUE

\* files_by_acquisition[k] of one series
FilesOfKey(a, k) == a.byAcq[CHOOSE p \in 1..Len(a.keys) : a.keys[p] = k]

\* A sort key that puts the files without instance number last.
InstanceKeyMissingLast(f) == IF IsNone(f.inst) THEN 1000000 ELSE f.inst[1]

\* key=lambda x: x['instance_num'] if x['instance_num'] else 0
InstanceKey(f) == IF IsNone(f.inst) \/ f.inst[1] = 0 THEN 0 ELSE f.inst[1]

SortByInstance(files, paths) ==
    StableSortBy(paths, [i \in 1..Len(paths) |-> InstanceKey(files[paths[i]])])

RECURSIVE Concat(_)
Concat(ss) == IF Len(ss) = 0 THEN << >> ELSE Head(ss) \o Concat(Tail(ss))

\* The time points a 4D entry is given (lines 199-209): one per element of
\* the sorted acquisition_numbers.
TimePointKeys(a) == a.acquisition_numbers

\* One element of 'time_points' (lines 202-211)
TimePoint(files, a, k) ==
    CHOOSE r \in {[acquisition_number |-> k, files |-> fs, slice_count |-> Len(fs)] :
                     fs \in {SortByInstance(files, FilesOfKey(a, k))}} : TRUE

\* metadata['description'] (line 117): getattr(ds, 'SeriesDescription',
\* 'No Description') of the first file of the series; the model's headers
\* carry no SeriesDescription.
SeriesDescriptionOf(uid) == "No Description"

\* 'description' of a 4D entry (line 219)
Description4D(description, num_time_points) ==
    description \o " [4D - " \o ToString(num_time_points) \o " timepoints]"

\* float(getattr(f['ds'], 'SliceLocation', f['instance_num'] or 0)) (lines
\* 230 and 280): the model's headers carry no SliceLocation.  A float is
\* the integer of its tenths.
SliceLocationOf(f) == IF IsNone(f.inst) THEN 0 ELSE f.inst[1] * 10

\* The entry organize_by_series builds for one series (lines 171-281).  A
\* regular entry has no 'is_4d', 'time_points' or 'num_time_points' key:
\* they are given here the values their readers default to.  first_path is
\* the file whose header gives rows, cols, pixel_spacing, slice_thickness
\* and the window (first_ds / first_path, lines 178-181 and 243-244).  The
\* slice locations of a 4D entry are those of first_files, the list of the
\* first acquisition number, which the loop of lines 200-209 has sorted in
\* place by then.
SeriesEntry(files, uid, a) ==
    IF a.is_4d
    THEN CHOOSE r \in
           {[uid |-> uid, number |-> SeriesNumberOf(uid),
             description |-> Description4D(SeriesDescriptionOf(uid),
                                           Len(a.acquisition_numbers)),
             files |-> Concat([t \in 1..Len(tps) |-> tps[t].files]),
             instance_count |-> Len(Concat([t \in 1..Len(tps) |-> tps[t].files])),
             first_path |-> FilesOfKey(a, a.acquisition_numbers[1])[1],
             slice_locations |-> [k \in 1..Len(tps[1].files) |->
                                     SliceLocationOf(files[tps[1].files[k]])],
             is_4d |-> TRUE, time_points |-> tps,
             num_time_points |-> Len(a.acquisition_numbers)] :
            tps \in {[t \in 1..Len(TimePointKeys(a)) |->
                        TimePoint(files, a, TimePointKeys(a)[t])]}} : TRUE
    ELSE CHOOSE r \in
           {[uid |-> uid, number |-> SeriesNumberOf(uid),
             description |-> SeriesDescriptionOf(uid),
             files |-> fs, instance_count |-> Len(fs),
             first_path |-> fs[1],
             slice_locations |-> [k \in 1..Len(fs) |-> SliceLocationOf(files[fs[k]])],
             is_4d |-> FALSE, time_points |-> << >>,
             num_time_points |-> 0] :
            fs \in {SortByInstance(files, a.byAcq[1])}} : TRUE

\* s['description'], the second component of the sort key of line 285, as
\* an integer: the descriptions of the model are 'No Description' and 'No
\* Description [4D - n timepoints]', and the first is a prefix of the second.
DescriptionRank(e) == IF e.is_4d THEN e.num_time_points + 1 ELSE 0

\* organize_by_series: one entry per analysed series, in the analysis'
\* insertion order, then sorted by (series number, description) (lines
\* 283-285).
organize_by_series(files) ==
    LET Entries(an) == [k \in 1..Len(an.order) |->
                          SeriesEntry(files, an.order[k], an.data[an.order[k]])]
    IN  CHOOSE r \in
          {StableSortBy(entries, [k \in 1..Len(entries) |->
                                    entries[k].number * 100 + DescriptionRank(entries[k])]) :
             entries \in {Entries(an) : an \in {analyze_series_for_4d(files)}}} : TRUE

ResolveInit ==
    /\ rFiles \in SeqsUpTo(ResolveFiles, 0, MaxFiles)
    /\ rAnalysis = << >>
    /\ rSeries = << >>
    /\ rPc = "start"

Resolve ==
    /\ rPc = "start"
    /\ rAnalysis' = analyze_series_for_4d(rFiles)
    /\ rSeries' = organize_by_series(rFiles)
    /\ rPc' = "done"
    /\ UNCHANGED rFiles

\* The files of the input whose header decodes and that carry series UID u.
FilesOfSeries(u) ==
    {i \in 1..Len(rFiles) : rFiles[i].readable /\ SeriesUidOf(rFiles[i]) = u}

InputSeries ==
    {SeriesUidOf(rFiles[i]) : i \in {j \in 1..Len(rFiles) : rFiles[j].readable}}

\* The acquisition numbers of series u, a file lacking the attribute
\* counting as acquisition 0.
AcquisitionsOfSeries(u) ==
    {IF IsNone(rFiles[i].acq) THEN 0 ELSE rFiles[i].acq[1] : i \in FilesOfSeries(u)}

FilesOfAcquisition(u, a) ==
    {i \in FilesOfSeries(u) :
        (IF IsNone(rFiles[i].acq) THEN 0 ELSE rFiles[i].acq[1]) = a}

SeqToSet(s) == {s[i] : i \in 1..Len(s)}

\* C23: for a non-4D series organize_by_series lists the series' files in
\* ascending instance-number order, a missing instance number counting as
\* 0 and files with equal instance numbers keeping their input order; the
\* rows/cols and spacing metadata come from the first file of that order.
C23_RegularSeriesOrder ==
    rPc = "done" =>
        \A k \in 1..Len(rSeries) :
            ~rSeries[k].is_4d =>
                \A fs \in {rSeries[k].files} :
                    /\ SeqToSet(fs) = FilesOfSeries(rSeries[k].uid)
                    /\ Len(fs) = Cardinality(FilesOfSeries(rSeries[k].uid))
                    /\ \A i, j \in 1..Len(fs) :
                          i < j =>
                            \A ki \in {IF IsNone(rFiles[fs[i]].inst) THEN 0
                                        ELSE rFiles[fs[i]].inst[1]} :
                            \A kj \in {IF IsNone(rFiles[fs[j]].inst) THEN 0
                                        ELSE rFiles[fs[j]].inst[1]} :
                                ki < kj \/ (ki = kj /\ fs[i] < fs[j])
                    /\ rSeries[k].first_path = fs[1]

\* A regular series of three files that the sort reorders: one file has no
\* instance number, two have equal ones, and the metadata come from a file
\* that is not the first of the input.
C23_Witness ==
    /\ rPc = "done"
    /\ \E k \in 1..Len(rSeries) :
          /\ ~rSeries[k].is_4d
          /\ Len(rSeries[k].files) = 3
          /\ rSeries[k].first_path # 1
          /\ \E i \in 1..3 : IsNone(rFiles[i].inst)
          /\ \E i, j \in 1..3 : i # j /\ rFiles[i].inst = rFiles[j].inst

\* C4: a series is flagged 4D iff its files carry more than one distinct
\* acquisition number, files lacking AcquisitionNumber counting as 0.
C4_Is4DIffSeveralAcquisitions ==
    rPc = "done" =>
        /\ DOMAIN rAnalysis.data = InputSeries
        /\ \A u \in InputSeries :
              rAnalysis.data[u].is_4d <=> Cardinality(AcquisitionsOfSeries(u)) > 1

C4_Witness ==
    /\ rPc = "done"
    /\ \E u \in InputSeries :
          /\ rAnalysis.data[u].is_4d
          /\ \E i \in FilesOfSeries(u) : IsNone(rFiles[i].acq)

IsSortedByInstance(fs) ==
    \A i, j \in 1..Len(fs) :
        i < j => InstanceKey(rFiles[fs[i]]) <= InstanceKey(rFiles[fs[j]])

\* C5: a 4D series gets one time point per acquisition number of the series
\* (the synthetic acquisition 0 included), in ascending order, each holding
\* exactly the files of that acquisition sorted by instance number, and
\* num_time_points is the number of time points.
C5_TimePointPerAcquisition ==
    rPc = "done" =>
        \A k \in 1..Len(rSeries) :
            rSeries[k].is_4d =>
                LET e    == rSeries[k]
                    acqs == SortedSeqOf(AcquisitionsOfSeries(e.uid))
                IN  /\ Len(e.time_points) = Len(acqs)
                    /\ e.num_time_points = Len(e.time_points)
                    /\ \A t \in 1..Len(e.time_points) :
                          /\ t <= Len(acqs)
                          /\ e.time_points[t].acquisition_number = acqs[t]
                          /\ SeqToSet(e.time_points[t].files)
                                = FilesOfAcquisition(e.uid, acqs[t])
                          /\ Len(e.time_points[t].files)
                                = Cardinality(FilesOfAcquisition(e.uid, acqs[t]))
                          /\ IsSortedByInstance(e.time_points[t].files)

RECURSIVE SumSliceCounts(_)
SumSliceCounts(tps) ==
    IF Len(tps) = 0 THEN 0 ELSE Head(tps).slice_count + SumSliceCounts(Tail(tps))

\* C6: every series UID among the decodable input files gets exactly one
\* entry, whose flat file list holds every input file of the UID exactly
\* once and whose instance_count is the number of those files (for a 4D
\* entry: the sum of its time points' slice counts).
C6_FileConservation ==
    rPc = "done" =>
        /\ {rSeries[k].uid : k \in 1..Len(rSeries)} = InputSeries
        /\ Len(rSeries) = Cardinality(InputSeries)
        /\ \A k \in 1..Len(rSeries) :
              LET e == rSeries[k] IN
              /\ SeqToSet(e.files) = FilesOfSeries(e.uid)
              /\ Len(e.files) = Cardinality(FilesOfSeries(e.uid))
              /\ e.instance_count = Cardinality(FilesOfSeries(e.uid))
              /\ e.is_4d => e.instance_count = SumSliceCounts(e.time_points)

(***************************************************************************)
(* PatientModel: patient.SeriesInfo, patient.Patient and their JSON record *)
(*                                                                         *)
(* Python values: a str is a string, an int an integer, a float the        *)
(* integer of its tenths (0.7 is 7), None is << >> and an Optional value v *)
(* is <<v>>; a tuple, a list and a dict are tagged records, a dict keeping *)
(* its items in insertion order.  A JSON text is its value tree: json.dumps*)
(* is one-to-one on trees.                                                 *)
(***************************************************************************)
MaxSeries == 2

PyTuple(s) == [py |-> "tuple", items |-> s]

PyList(s) == [py |-> "list", items |-> s]

PyDict(s) == [py |-> "dict", items |-> s]

IsTagged(v, tag) == v.py = tag

\* The fields the SeriesInfo dataclass declares (lines 24-64).
SeriesInfoFields ==
    {"series_instance_uid", "series_number", "series_description", "modality",
     "image_type", "rows", "cols", "slice_count", "pixel_spacing",
     "slice_thickness", "image_position_patient", "image_orientation_patient",
     "frame_of_reference_uid", "window_center", "window_width", "file_paths",
     "slice_locations", "is_loaded", "is_visible", "is_selected",
     "show_volume", "show_bone", "tissue_volumes"}

\* The fields whose values are containers: json turns them into arrays and
\* objects.
ContainerFields ==
    {"image_type", "pixel_spacing", "image_position_patient",
     "image_orientation_patient", "file_paths", "slice_locations",
     "tissue_volumes", "time_points"}

\* The fields from_dict turns from a list back into a tuple (lines 74-79).
TupleFields ==
    {"pixel_spacing", "image_position_patient", "image_orientation_patient"}

SeriesInfoDefaults ==
    [series_instance_uid |-> "", series_number |-> 0, series_description |-> "",
     modality |-> "", image_type |-> PyList(<< >>), rows |-> 0, cols |-> 0,
     slice_count |-> 0, pixel_spacing |-> PyTuple(<<10, 10>>),
     slice_thickness |-> 10,
     image_position_patient |-> PyTuple(<<0, 0, 0>>),
     image_orientation_patient |-> PyTuple(<<10, 0, 0, 0, 10, 0>>),
     frame_of_reference_uid |-> "", window_center |-> None,
     window_width |-> None, file_paths |-> PyList(<< >>),
     slice_locations |-> PyList(<< >>), is_loaded |-> FALSE,
     is_visible |-> FALSE, is_selected |-> TRUE, show_volume |-> TRUE,
     show_bone |-> FALSE, tissue_volumes |-> PyDict(<< >>)]

\* SeriesInfo(**kw), the __init__ the dataclass generates: a keyword that is
\* no field, or a missing series_instance_uid, raises TypeError (None here).
\* An object is [fields |-> the dataclass fields, extra |-> the attributes
\* set on it besides].
SeriesInfoNew(kw) ==
    IF ~(DOMAIN kw \subseteq SeriesInfoFields) \/ "series_instance_uid" \notin DOMAIN kw
    THEN None
    ELSE Some([fields |-> [f \in SeriesInfoFields |->
                             IF f \in DOMAIN kw THEN kw[f] ELSE SeriesInfoDefaults[f]],
               extra  |-> << >>])

\* json.dumps / json.loads of one value: a tuple and a list both become an
\* array, an array comes back as a list.
JsonOfValue(f, v) ==
    IF f \in ContainerFields
    THEN IF IsTagged(v, "dict") THEN [js |-> "object", items |-> v.items]
         ELSE [js |-> "array", items |-> v.items]
    ELSE v

ValueOfJson(f, j) ==
    IF f \in ContainerFields
    THEN IF j.js = "object" THEN PyDict(j.items) ELSE PyList(j.items)
    ELSE j

\* SeriesInfo.to_dict (asdict: the dataclass fields only) as json.dumps
\* renders it.
SeriesToJson(s) ==
    [f \in SeriesInfoFields |-> JsonOfValue(f, s.fields[f])]

\* SeriesInfo.from_dict of a parsed JSON object (lines 71-81).
SeriesFromJson(j) ==
    LET data  == [f \in DOMAIN j |-> ValueOfJson(f, j[f])]
        data2 == [f \in DOMAIN data |->
                    IF f \in TupleFields /\ IsTagged(data[f], "list")
                    THEN PyTuple(data[f].items) ELSE data[f]]
    IN  SeriesInfoNew(data2)

\* Patient.to_json (lines 117-135), the scalar metadata of the patient and
\* the study gathered in one field.
to_json(m) ==
    [meta |-> m.meta,
     series |-> [k \in 1..Len(m.series) |-> SeriesToJson(m.series[k])],
     volume_objects |-> [js |-> "object", items |-> m.volume_objects.items],
     mesh_objects |-> [js |-> "object", items |-> m.mesh_objects.items],
     primary_count |-> m.primary_count,
     secondary_count |-> m.secondary_count,
     non_image_count |-> m.non_image_count]

\* Patient.from_json (lines 137-150): None when a SeriesInfo.from_dict raises.
from_json(t) ==
    LET series == [k \in 1..Len(t.series) |-> SeriesFromJson(t.series[k])]
    IN  IF \E k \in 1..Len(series) : IsNone(series[k]) THEN None
        ELSE Some([meta |-> t.meta,
                   series |-> [k \in 1..Len(series) |-> series[k][1]],
                   volume_objects |-> PyDict(t.volume_objects.items),
                   mesh_objects |-> PyDict(t.mesh_objects.items),
                   primary_count |-> t.primary_count,
                   secondary_count |-> t.secondary_count,
                   non_image_count |-> t.non_image_count])

\* The time-point structure of a 4D series (dicom_io lines 205-209).
TimePointsExample ==
    PyList(<<[acquisition_number |-> 1, files |-> PyList(<<"a1", "a2">>), slice_count |-> 2],
             [acquisition_number |-> 2, files |-> PyList(<<"b1", "b2">>), slice_count |-> 2]>>)

FourDAttributes ==
    [is_4d |-> TRUE, time_points |-> TimePointsExample, num_time_points |-> 2]

StaticArguments(uid) ==
    [series_instance_uid |-> uid, series_number |-> 3, modality |-> "CT",
     image_type |-> PyList(<<"ORIGINAL", "PRIMARY">>),
     rows |-> 512, cols |-> 512, slice_count |-> 2,
     pixel_spacing |-> PyTuple(<<7, 7>>),
     image_position_patient |-> PyTuple(<<0, 0, 15>>),
     window_center |-> Some(400), file_paths |-> PyList(<<"a1", "a2">>),
     slice_locations |-> PyList(<<0, 10>>)]

\* The series a model is built from: the keyword arguments of SeriesInfo,
\* the attributes assigned to the object afterwards, and the measurements
\* stored in its tissue_volumes.
SeriesSpecs ==
    {[kw |-> [series_instance_uid |-> u], set |-> << >>, tissue |-> << >>] : u \in {"A", "B"}}
    \cup {[kw |-> StaticArguments(u), set |-> << >>, tissue |-> t] :
            u \in {"A", "B"}, t \in {<< >>, << <<"fat", 1234>>, <<"bone", 567>> >>}}
    \cup {[kw |-> StaticArguments(u) @@ FourDAttributes, set |-> << >>, tissue |-> << >>] :
            u \in {"A", "B"}}
    \cup {[kw |-> StaticArguments(u), set |-> FourDAttributes, tissue |-> << >>] :
            u \in {"A", "B"}}

PatientSpecs ==
    [series : SeqsUpTo(SeriesSpecs, 0, MaxSeries), withObjects : BOOLEAN]

\* The object one series of the specification gives: SeriesInfo(**kw), then
\* the assignments; None when the constructor raises.
BuildSeries(sp) ==
    LET o == SeriesInfoNew(sp.kw) IN
    IF IsNone(o) THEN None
    ELSE Some([fields |-> [o[1].fields EXCEPT !.tissue_volumes = PyDict(sp.tissue)],
               extra  |-> sp.set])

BuildPatient(ps) ==
    LET series == [k \in 1..Len(ps.series) |-> BuildSeries(ps.series[k])]
    IN  IF \E k \in 1..Len(series) : IsNone(series[k]) THEN None
        ELSE Some([meta |-> [patient_id |-> "P1", patient_name |-> "Doe^J",
                             study_date |-> "", dicom_root_path |-> "/data"],
                   series |-> [k \in 1..Len(series) |-> series[k][1]],
                   volume_objects |->
                       PyDict(IF ps.withObjects /\ Len(series) > 0
                              THEN << <<series[1][1].fields.series_instance_uid, "CT_Volume_S3">> >>
                              ELSE << >>),
                   mesh_objects |-> PyDict(<< >>),
                   primary_count |-> 4, secondary_count |-> 1,
                   non_image_count |-> 0])

PatientInit ==
    /\ pSpec \in PatientSpecs
    /\ pModel = None /\ pText = None /\ pRestored = None /\ pText2 = None
    /\ pPc = "spec"

\* The model is built: Patient(), SeriesInfo(...) for every series.
Build ==
    /\ pPc = "spec"
    /\ pModel' = BuildPatient(pSpec)
    /\ pPc' = IF IsNone(BuildPatient(pSpec)) THEN "error" ELSE "built"
    /\ UNCHANGED <<pSpec, pText, pRestored, pText2>>

Serialize ==
    /\ pPc = "built"
    /\ pText' = Some(to_json(pModel[1]))
    /\ pPc' = "serialized"
    /\ UNCHANGED <<pSpec, pModel, pRestored, pText2>>

Deserialize ==
    /\ pPc = "serialized"
    /\ pRestored' = from_json(pText[1])
    /\ pPc' = IF IsNone(from_json(pText[1])) THEN "error" ELSE "restored"
    /\ UNCHANGED <<pSpec, pModel, pText, pText2>>

Reserialize ==
    /\ pPc = "restored"
    /\ pText2' = Some(to_json(pRestored[1]))
    /\ pPc' = "reserialized"
    /\ UNCHANGED <<pSpec, pModel, pText, pRestored>>

\* C3: every Patient model - one without series, one with a 4D series
\* carrying is_4d and time_points, one with tissue volumes - can be built,
\* deserializes from its own serialization to an equal model (every
\* attribute it carries included), and serializes again to the same text.
C3_RoundTrip ==
    /\ pPc # "error"
    /\ pPc \in {"restored", "reserialized"} => pRestored = pModel
    /\ pPc = "reserialized" => pText2 = pText

\* What holds of the record: a model whose series use only the declared
\* fields round-trips.
DeclaredFieldsOnly ==
    \A k \in 1..Len(pSpec.series) :
        /\ DOMAIN pSpec.series[k].kw \subseteq SeriesInfoFields
        /\ pSpec.series[k].set = << >>

RoundTripOfDeclaredFields ==
    DeclaredFieldsOnly =>
        /\ pPc # "error"
        /\ pPc \in {"restored", "reserialized"} => pRestored = pModel
        /\ pPc = "reserialized" => pText2 = pText

(***************************************************************************)
(* Patient load: dicom_io.load_patient_from_folder and                     *)
(* operators.IMPORT_OT_dicom_load_patient.execute                          *)
(***************************************************************************)
MaxLoadFiles == 3

ImageFile(it, uid, acq, inst) ==
    [readable |-> TRUE, hasRows |-> TRUE, hasColumns |-> TRUE, sop |-> None,
     imageType |-> it, uid |-> uid, acq |-> acq, inst |-> inst]

OriginalPrimary == [kind |-> "multi", comps |-> <<"ORIGINAL", "PRIMARY">>]

DerivedSecondary == [kind |-> "multi", comps |-> <<"DERIVED", "SECONDARY">>]

\* The candidate files of the model's directories: an undecodable file, a
\* header without Rows, a secondary capture, a derived image, an image whose
\* ImageType does not decode, and primary images of two series, with and
\* without AcquisitionNumber.
LoadFiles ==
    { [ImageFile(OriginalPrimary, None, None, None) EXCEPT !.readable = FALSE],
      [ImageFile(OriginalPrimary, Some("A"), None, Some(1)) EXCEPT !.hasRows = FALSE],
      [ImageFile(OriginalPrimary, Some("A"), None, Some(1))
          EXCEPT !.sop = Some(SOP_CLASS_SECONDARY_CAPTURE)],
      ImageFile(DerivedSecondary, Some("A"), None, Some(1)),
      ImageFile([kind |-> "malformed", comps |-> << >>], Some("A"), None, Some(1)),
      ImageFile(OriginalPrimary, Some("A"), None, Some(2)),
      ImageFile(OriginalPrimary, Some("A"), Some(1), Some(1)),
      ImageFile([kind |-> "absent", comps |-> << >>], None, None, None) }

Directories ==
    [valid : BOOLEAN, files : SeqsUpTo(LoadFiles, 0, MaxLoadFiles)]

\* The indices of s, in order, whose element satisfies the label test.
RECURSIVE IndicesLabelled(_, _, _)
IndicesLabelled(files, label, i) ==
    IF i > Len(files) THEN << >>
    ELSE (IF classify_dicom_file(files[i]) = label THEN <<i>> ELSE << >>)
         \o IndicesLabelled(files, label, i + 1)

NoPrimaryCheckOff(primary_files) == FALSE

\* `if not primary_files` (line 382)
NoPrimaryCheck(primary_files) == Len(primary_files) = 0

\* list(getattr(ds, 'ImageType', [])) of the header of the entry's first
\* file (lines 414-434); a header whose ImageType does not decode raises
\* inside the try block and gives [].
SeriesImageType(f) ==
    IF f.imageType.kind = "malformed" THEN << >> ELSE ImageTypeValue(f.imageType)

\* The keyword arguments load_patient_from_folder hands to SeriesInfo for
\* one entry of the series list (lines 446-467); files are the primary
\* files the entry's paths index, idx maps these paths to the paths of the
\* directory.
SeriesArguments(e, files, idx) ==
    [series_instance_uid |-> e.uid, series_number |-> e.number,
     series_description |-> e.description, modality |-> "CT",
     image_type |-> PyList(SeriesImageType(files[e.files[1]])),
     rows |-> 1, cols |-> 1,
     slice_count |-> e.instance_count,
     pixel_spacing |-> PyTuple(<<10, 10>>), slice_thickness |-> 10,
     image_position_patient |-> PyTuple(<<0, 0, 0>>),
     image_orientation_patient |-> PyTuple(<<10, 0, 0, 0, 10, 0>>),
     frame_of_reference_uid |-> "", window_center |-> None,
     window_width |-> None,
     file_paths |-> PyList([k \in 1..Len(e.files) |-> idx[e.files[k]]]),
     slice_locations |-> PyList(e.slice_locations),
     is_4d |-> e.is_4d,
     time_points |-> PyList(e.time_points),
     num_time_points |-> e.num_time_points]

\* load_patient_from_folder on the gathered files (lines 363-475):
\* [exc |-> the exception raised or "none", patient |-> the Patient
\* returned, grouped |-> whether organize_by_series was called].
load_patient_from_folder(files) ==
    LET primary_files == IndicesLabelled(files, "primary", 1)
        secondary     == IndicesLabelled(files, "secondary", 1)
        non_image     == IndicesLabelled(files, "non_image", 1)
    IN
    IF NoPrimaryCheck(primary_files)
    THEN [exc |-> "ValueError: No primary DICOM images found",
          patient |-> None, grouped |-> FALSE]
    ELSE
      LET Result(series) ==
            IF \E k \in 1..Len(series) : IsNone(series[k])
            THEN [exc |-> "TypeError: SeriesInfo.__init__() got an unexpected keyword argument",
                  patient |-> None, grouped |-> TRUE]
            ELSE [exc |-> "none",
                  patient |-> Some(
                      [meta |-> [patient_id |-> "P1", patient_name |-> "Doe^J",
                                 study_date |-> "", dicom_root_path |-> "/data"],
                       series |-> [k \in 1..Len(series) |-> series[k][1]],
                       volume_objects |-> PyDict(<< >>),
                       mesh_objects |-> PyDict(<< >>),
                       primary_count |-> Len(primary_files),
                       secondary_count |-> Len(secondary),
                       non_image_count |-> Len(non_image)]),
                  grouped |-> TRUE]
          primary == [k \in 1..Len(primary_files) |-> files[primary_files[k]]]
      IN  CHOOSE r \in
            {Result([k \in 1..Len(series_list) |->
                       CHOOSE o \in {SeriesInfoNew(SeriesArguments(e, primary, primary_files)) :
                                        e \in {series_list[k]}} : TRUE]) :
             series_list \in {organize_by_series(primary)}} : TRUE

\* The properties the add-on registers on bpy.types.Scene
\* (properties.register_scene_props, lines 86-312, and the register
\* functions of the two measurement packages).
SceneProperties ==
    {"dicom_import_folder", "dicom_series_collection", "dicom_series_data",
     "dicom_preview_series_index", "dicom_preview_slice_index",
     "dicom_preview_slice_count", "dicom_show_series_list",
     "dicom_show_spatial_info", "dicom_debug_pyramid", "dicom_patient_data",
     "dicom_active_tool", "dicom_show_tissue_thresholds",
     "dicom_fat_min", "dicom_fat_max", "dicom_fluid_min", "dicom_fluid_max",
     "dicom_soft_min", "dicom_soft_max", "dicom_bone_min",
     "dicom_volume_data_path", "dicom_volume_spacing",
     "dicom_volume_unique_id", "dicom_volume_hu_min", "dicom_volume_hu_max",
     "dicom_show_volume", "dicom_show_fat", "dicom_show_fluid",
     "dicom_show_soft", "dicom_show_bone", "dicom_tissue_alpha_fat",
     "dicom_tissue_alpha_soft", "dicom_tissue_alpha_bone",
     "dicom_fat_volume_ml", "dicom_fluid_volume_ml", "dicom_soft_volume_ml",
     "dicom_show_fat_mask", "dicom_show_fluid_mask", "dicom_show_soft_mask",
     "dicom_measurement_template", "dicom_landmarks", "dicom_measurements",
     "dicom_active_landmark_index", "dicom_active_measurement_index"}

\* The scene properties the operators and create_volume read or assign
\* that no file of the add-on registers.
UnregisteredProperties ==
    {"dicom_active_material_preset", "dicom_tissue_alphas",
     "dicom_material_preset", "denoise_enabled", "denoise_method",
     "denoise_strength", "center_volume_at_origin", "dicom_centering_offset"}

\* The properties a scene can have: those of the add-on alone, or those
\* together with the unregistered ones, defined by another script of the
\* session.
ScenePropertySets ==
    {SceneProperties, SceneProperties \cup UnregisteredProperties}

\* The exception reading or assigning scene.<name> raises in a scene with
\* the properties props, "none" when the scene has the property.
SceneAccess(props, name) ==
    IF name \in props THEN "none"
    ELSE "AttributeError: 'Scene' object has no attribute '" \o name \o "'"

\* The first exception among those of a sequence of statements.
RECURSIVE FirstExc(_)
FirstExc(excs) ==
    IF Len(excs) = 0 THEN "none"
    ELSE IF Head(excs) # "none" THEN Head(excs)
    ELSE FirstExc(Tail(excs))

\* The record of a patient loaded earlier, as Patient.to_json writes it.
PreviousRecord ==
    to_json([meta |-> [patient_id |-> "P0", patient_name |-> "Roe^R",
                       study_date |-> "", dicom_root_path |-> "/old"],
             series |-> << SeriesInfoNew([series_instance_uid |-> "OLD",
                                          series_number |-> 1,
                                          modality |-> "CT",
                                          file_paths |-> PyList(<<"o1", "o2">>),
                                          slice_count |-> 2,
                                          is_loaded |-> TRUE,
                                          is_visible |-> TRUE])[1] >>,
             volume_objects |-> PyDict(<< <<"OLD", "CT_Volume_S1">> >>),
             mesh_objects |-> PyDict(<< >>),
             primary_count |-> 2, secondary_count |-> 0, non_image_count |-> 0])

\* The objects of a scene: the camera, and the volume and bone objects of
\* the previous patient.
SceneObjectNames == {"Camera", "CT_Volume_S1", "CT_Bone_S1"}

\* "any(pattern in obj.name for pattern in ['_Volume_S', '_Volume',
\* '_Bone_S', '_Bone', '_Mesh_S', '_Mesh', 'DEBUG_Pyramid'])" (line 89)
IsDicomObjectName(name) == name \in {"CT_Volume_S1", "CT_Bone_S1"}

\* The scenes the operator is run in: a fresh one, or one holding a
\* previous patient with its objects and, possibly, an active tool.
ScenesBefore ==
    {[record |-> None, tool |-> "NONE", objects |-> {"Camera"},
      properties |-> props] : props \in ScenePropertySets} \cup
    {[record |-> Some(PreviousRecord), tool |-> tool, objects |-> SceneObjectNames,
      properties |-> props] :
        tool \in {"NONE", "VISUALIZATION"}, props \in ScenePropertySets}

\* A clearing that keeps what the scene held.
KeptScene(before) == before

\* What lines 40-44 leave of the scene before load_patient_from_folder is
\* called: 'dicom_patient_data = ""', 'dicom_active_tool = "NONE"' and
\* the objects _cleanup_all keeps (lines 86-93).
ClearedScene(before) ==
    [record |-> None, tool |-> "NONE",
     objects |-> {o \in before.objects : ~IsDicomObjectName(o)},
     properties |-> before.properties]

\* _cleanup_all (operators.py lines 79-140): the objects are removed (step
\* 1, lines 86-93), then the scene properties are reset one by one (step 4,
\* lines 113-124); the exception is that of the first property the scene
\* does not have.
cleanup_all(before) ==
    [scene |-> ClearedScene(before),
     exc   |-> FirstExc([k \in 1..11 |->
                 SceneAccess(before.properties,
                    <<"dicom_volume_data_path", "dicom_volume_spacing",
                      "dicom_volume_unique_id", "dicom_volume_hu_min",
                      "dicom_volume_hu_max", "dicom_preview_slice_index",
                      "dicom_preview_slice_count", "dicom_preview_series_index",
                      "dicom_series_data", "dicom_active_material_preset",
                      "dicom_tissue_alphas">>[k])])]

\* str(e) of the exceptions of the model, which name the type first.
ExcText(exc) ==
    CASE exc = "ValueError: No primary DICOM images found"
           -> "No primary DICOM images found"
      [] exc = "TypeError: SeriesInfo.__init__() got an unexpected keyword argument"
           -> "SeriesInfo.__init__() got an unexpected keyword argument 'is_4d'"
      [] exc = SceneAccess({}, "dicom_active_material_preset")
           -> "'Scene' object has no attribute 'dicom_active_material_preset'"
      [] exc = SceneAccess({}, "dicom_tissue_alphas")
           -> "'Scene' object has no attribute 'dicom_tissue_alphas'"
      [] OTHER -> exc

\* self.report({'ERROR'}, f"Failed to load patient: {e}") (line 74)
LoadFailureReport(exc) == "Failed to load patient: " \o ExcText(exc)

LoadInit ==
    /\ lDecoder \in BOOLEAN
    /\ lDir \in Directories
    /\ lBefore \in ScenesBefore
    /\ scenePatient = lBefore.record
    /\ lTool = lBefore.tool
    /\ lObjects = lBefore.objects
    /\ lResult = "none"
    /\ lReport = "none"
    /\ lGrouped = FALSE
    /\ lFolder = None

\* load_patient_from_folder called on the files of the directory.
LoadFromFolder ==
    /\ lFolder = None
    /\ lFolder' = Some(load_patient_from_folder(lDir.files))
    /\ UNCHANGED <<lDecoder, lDir, lBefore, scenePatient, lTool, lObjects,
                   lResult, lReport, lGrouped>>

\* IMPORT_OT_dicom_load_patient.execute (operators.py lines 29-77) on
\* the operator's directory.  Lines 40-41 clear the record and the tool,
\* line 44 runs _cleanup_all; load_patient_from_folder (line 47) is called
\* only when the cleanup returned.
LoadPatient ==
    /\ lResult = "none"
    /\ UNCHANGED <<lDecoder, lDir, lBefore, lFolder>>
    /\ IF ~lDecoder
       THEN /\ lReport' = "pydicom not installed. Install with: pip install pydicom pillow"
            /\ lResult' = "CANCELLED"
            /\ lGrouped' = FALSE
            /\ UNCHANGED <<scenePatient, lTool, lObjects>>
       ELSE IF ~lDir.valid
       THEN /\ lReport' = "Invalid folder"
            /\ lResult' = "CANCELLED"
            /\ lGrouped' = FALSE
            /\ UNCHANGED <<scenePatient, lTool, lObjects>>
       ELSE \E cleanup \in {cleanup_all([record |-> scenePatient, tool |-> lTool,
                                         objects |-> lObjects,
                                         properties |-> lBefore.properties])} :
            /\ lTool' = cleanup.scene.tool
            /\ lObjects' = cleanup.scene.objects
            /\ IF cleanup.exc # "none"
               THEN /\ scenePatient' = cleanup.scene.record
                    /\ lGrouped' = FALSE
                    /\ lReport' = LoadFailureReport(cleanup.exc)
                    /\ lResult' = "CANCELLED"
               ELSE \E r \in {load_patient_from_folder(lDir.files)} :
                    /\ lGrouped' = r.grouped
                    /\ IF r.exc # "none"
                       THEN /\ scenePatient' = cleanup.scene.record
                            /\ lReport' = LoadFailureReport(r.exc)
                            /\ lResult' = "CANCELLED"
                       ELSE /\ scenePatient' = Some(to_json(r.patient[1]))
                            /\ lReport' = "none"
                            /\ lResult' = "FINISHED"

NoPrimaryAmong(files) ==
    \A i \in 1..Len(files) : classify_dicom_file(files[i]) # "primary"

\* C10: when no file of the directory is classified primary,
\* load_patient_from_folder fails with 'No primary DICOM images found'
\* before any series grouping and returns no Patient model, and the
\* operator run on such a directory (decoder present, directory valid)
\* returns CANCELLED with an error report and stores no record; when some
\* file is primary, that error is not raised.
C10_NoPrimaryIsHardError ==
    /\ lFolder # None =>
          /\ NoPrimaryAmong(lDir.files) =>
                /\ lFolder[1].exc = "ValueError: No primary DICOM images found"
                /\ ~lFolder[1].grouped
                /\ lFolder[1].patient = None
          /\ ~NoPrimaryAmong(lDir.files) =>
                lFolder[1].exc # "ValueError: No primary DICOM images found"
    /\ (lResult # "none" /\ lDecoder /\ lDir.valid /\ NoPrimaryAmong(lDir.files)) =>
          /\ lResult = "CANCELLED"
          /\ lReport # "none"
          /\ ~lGrouped
          /\ scenePatient = None

\* A full directory without a primary file: the function has raised the
\* error, and the operator, its cleanup done, has reported it.
C10_Witness ==
    /\ lDecoder /\ lDir.valid
    /\ Len(lDir.files) = MaxLoadFiles
    /\ NoPrimaryAmong(lDir.files)
    /\ lFolder # None
    /\ lFolder[1].exc = "ValueError: No primary DICOM images found"
    /\ lResult = "CANCELLED"
    /\ lReport = LoadFailureReport("ValueError: No primary DICOM images found")

\* The directory indices a returned Patient's series list, over all series.
PathsCovered(patient) ==
    UNION {SeqToSet(patient.series[k].fields.file_paths.items) :
             k \in 1..Len(patient.series)}

\* C11: for a directory holding at least one valid primary image, whatever
\* the number and position of invalid, secondary or non-image files,
\* load_patient_from_folder returns a Patient model whose series cover
\* exactly the primary files.
C11_PartialSuccess ==
    (lFolder # None /\ ~NoPrimaryAmong(lDir.files)) =>
        /\ lFolder[1].exc = "none"
        /\ lFolder[1].patient # None
        /\ PathsCovered(lFolder[1].patient[1]) =
               SeqToSet(IndicesLabelled(lDir.files, "primary", 1))

\* C30: the operator rejects a missing decoder or an invalid directory with
\* CANCELLED and leaves the record (and the tool and the objects) as they
\* were; once it starts loading a valid directory it clears the record and
\* the previous patient's objects first, so a failing load ends CANCELLED
\* with an empty record and active tool NONE; after a started load the
\* record is non-empty only if the load succeeded.
C30_FailedLoadState ==
    lResult \in {"FINISHED", "CANCELLED"} =>
        /\ (~lDecoder \/ ~lDir.valid) =>
              /\ lResult = "CANCELLED"
              /\ scenePatient = lBefore.record
              /\ lTool = lBefore.tool
              /\ lObjects = lBefore.objects
        /\ (lDecoder /\ lDir.valid) =>
              /\ \A o \in lObjects : ~IsDicomObjectName(o)
              /\ lObjects \subseteq lBefore.objects
              /\ lTool = "NONE"
              /\ lResult = "CANCELLED" => scenePatient = None
              /\ scenePatient # None => lResult = "FINISHED"

\* A load of a valid directory has failed after the clearing, in a scene
\* that held a previous patient, its objects and an active tool.
C30_Witness ==
    /\ lResult = "CANCELLED" /\ lDecoder /\ lDir.valid
    /\ lReport = LoadFailureReport(SceneAccess({}, "dicom_active_material_preset"))
    /\ lBefore.record # None /\ lBefore.tool = "VISUALIZATION"
    /\ "CT_Volume_S1" \in lBefore.objects
    /\ scenePatient = None /\ lTool = "NONE" /\ lObjects = {"Camera"}

\* A rejected run has left a previous patient's record in place.
RejectedLoadKeepsRecord ==
    /\ lResult = "CANCELLED" /\ ~lDir.valid /\ lDecoder
    /\ lBefore.record # None /\ scenePatient = lBefore.record
    /\ lTool = "VISUALIZATION"

(***************************************************************************)
(* Volume assembly: volume_creation.create_volume, single-volume path      *)
(***************************************************************************)

MaxSlices == 3

MIN_SLICES_REQUIRED == 2

EXTREME_NEGATIVE_THRESHOLD == -2000

EXTREME_NEGATIVE_CLAMP == -1024

HU_MIN_FIXED == -1024

HU_MAX_FIXED == 3071

\* MM_TO_METERS is 0.001: one over this number.
MM_PER_METER == 1000

\* ImagePositionPatient values (mm) of the slices considered.
Positions == { <<0, 0, 0>>, <<0, 0, 1>> }

\* ImageOrientationPatient values: axial (normal +z) and coronal (normal +y).
Orientations == { <<1, 0, 0, 0, 1, 0>>, <<1, 0, 0, 0, 0, -1>> }

\* Calibrated pixel buffers: one row of samples; the shape of a buffer is
\* (1, Len(row)).
PixelRows == { <<-3000>>, <<-1500>>, <<100>>, <<4000>>, <<100, 4000>> }

\* PixelSpacing [row, column] and SliceThickness (mm) as load_slice copies
\* them from the header (dicom_io lines 317-324): any numbers the header
\* holds, zero and negative ones included.
SpacingVariants ==
    { [pixel_spacing |-> <<1, 2>>, slice_thickness |-> 3],
      [pixel_spacing |-> <<1, 2>>, slice_thickness |-> 0],
      [pixel_spacing |-> <<2, 1>>, slice_thickness |-> -1],
      [pixel_spacing |-> <<0, 1>>, slice_thickness |-> 1],
      [pixel_spacing |-> <<0, 0>>, slice_thickness |-> 0] }

\* The header load_slice keeps in the record ("ds": ds, dicom_io line 342),
\* as far as create_volume reads it: each of the two attributes is None
\* when the header lacks it, else Some(value).
Header(position, orientation) ==
    [ImagePositionPatient |-> position, ImageOrientationPatient |-> orientation]

\* The slice record load_slice returns for a header (dicom_io lines
\* 317-343), as far as create_volume reads it: position and orientation
\* take the defaults of getattr (lines 321-322) when the header lacks them.
SliceOf(ds, pixels, pixel_spacing, slice_thickness) ==
    [position |-> IF IsNone(ds.ImagePositionPatient) THEN <<0, 0, 0>>
                  ELSE ds.ImagePositionPatient[1],
     orientation |-> IF IsNone(ds.ImageOrientationPatient)
                     THEN <<1, 0, 0, 0, 1, 0>>
                     ELSE ds.ImageOrientationPatient[1],
     pixels |-> pixels, pixel_spacing |-> pixel_spacing,
     slice_thickness |-> slice_thickness, ds |-> ds]

\* Headers that lack ImagePositionPatient, ImageOrientationPatient.
PartialHeaders ==
    { Header(None, Some(<<1, 0, 0, 0, 1, 0>>)), Header(Some(<<0, 0, 1>>), None) }

\* The slice records handed to create_volume: slices of unit spacing,
\* slices at the origin with other spacings, and slices whose header lacks
\* the position or the orientation.
Slices ==
    {SliceOf(Header(Some(p), Some(o)), row, <<1, 1>>, 1) :
        p \in Positions, o \in Orientations, row \in PixelRows}
    \cup
    {SliceOf(Header(Some(<<0, 0, 0>>), Some(<<1, 0, 0, 0, 1, 0>>)), <<100>>,
             v.pixel_spacing, v.slice_thickness) : v \in SpacingVariants}
    \cup
    {SliceOf(ds, <<100>>, <<1, 1>>, 1) : ds \in PartialHeaders}

MinInt(a, b) == IF a < b THEN a ELSE b

MaxInt(a, b) == IF a > b THEN a ELSE b

\* np.cross on two 3-vectors
Cross(a, b) ==
    << a[2] * b[3] - a[3] * b[2],
       a[3] * b[1] - a[1] * b[3],
       a[1] * b[2] - a[2] * b[1] >>

\* np.dot on two 3-vectors
Dot(a, b) == a[1] * b[1] + a[2] * b[2] + a[3] * b[3]

\* slice_data["ds"].<name> (lines 233-234): "none", or the AttributeError
\* of a header that lacks the attribute.
HeaderAccess(ds, name) ==
    IF IsNone(ds[name])
    THEN "AttributeError: 'FileDataset' object has no attribute '" \o name \o "'"
    ELSE "none"

\* The loop of lines 232-243 over the slices in list order: each slice's
\* orientation is read from its header, then its position; the first
\* attribute missing ends the call.
HeaderReads(slices) ==
    FirstExc([k \in 1..(2 * Len(slices)) |->
                IF k % 2 = 1
                THEN HeaderAccess(slices[(k + 1) \div 2].ds, "ImageOrientationPatient")
                ELSE HeaderAccess(slices[k \div 2].ds, "ImagePositionPatient")])

\* The slice's normal_vector (lines 237-242), from the header's orientation
NormalVector(s) ==
    Cross(SubSeq(s.ds.ImageOrientationPatient[1], 1, 3),
          SubSeq(s.ds.ImageOrientationPatient[1], 4, 6))

\* The sort key of line 246: slice_data["position"] is the header's
\* position since line 243.
ProjectionKey(s) == Dot(s.ds.ImagePositionPatient[1], NormalVector(s))

\* `sorted(slices, key=...)` (line 246)
SortSlices(slices) ==
    StableSortBy(slices, [i \in 1..Len(slices) |-> ProjectionKey(slices[i])])

Shape(s) == <<1, Len(s.pixels)>>

\* The shape filter of lines 249-250
SameShapeAsFirst(slices) ==
    SelectSeq(slices, LAMBDA s : Shape(s) = Shape(slices[1]))

\* np.clip(v, a_min, a_max) on one sample: minimum(maximum(v, a_min), a_max)
NpClip(v, a_min, a_max) == MinInt(MaxInt(v, a_min), a_max)

ArrayMin(vol) ==
    CHOOSE m \in {vol[i][j] : i \in DOMAIN vol, j \in 1..Len(vol[1])} :
        \A i \in DOMAIN vol : \A j \in DOMAIN vol[i] : m <= vol[i][j]

ArrayMax(vol) ==
    CHOOSE m \in {vol[i][j] : i \in DOMAIN vol, j \in 1..Len(vol[1])} :
        \A i \in DOMAIN vol : \A j \in DOMAIN vol[i] : m >= vol[i][j]

\* ndimage.percentile_filter(percentile=25 | 75, size=3) and
\* ndimage.median_filter(size=3) on a one-row slice (lines 117-147), n =
\* DENOISING_MEDIAN_KERNEL_SIZE = 3.  Under scipy's 'reflect' boundary the
\* rows above and below mirror the row itself, so the nine values of a
\* neighbourhood are the left neighbour, the sample and the right
\* neighbour, each three times; at an end of the row the missing neighbour
\* is the sample itself.  The filters take the value of rank
\* int(9 * 0.25) = 2, int(9 * 0.75) = 6 and 9 // 2 = 4 (from 0) among the
\* nine sorted values: the least, the greatest and the middle of the three.
RankFiltered(row, method) ==
    LET left(j)  == row[MaxInt(j - 1, 1)]
        right(j) == row[MinInt(j + 1, Len(row))]
        least(j) == MinInt(left(j), MinInt(row[j], right(j)))
        most(j)  == MaxInt(left(j), MaxInt(row[j], right(j)))
    IN  [j \in 1..Len(row) |->
            CASE method = "PERCENTILE_25" -> least(j)
              [] method = "PERCENTILE_75" -> most(j)
              [] method = "MEDIAN" ->
                    left(j) + row[j] + right(j) - least(j) - most(j)]

\* (1.0 - blend_factor) * slice_array + blend_factor * filtered (lines 124,
\* 135, 147) with blend_factor = min(strength *
\* DENOISING_PERCENTILE_BLEND_MULTIPLIER, 1.0); a strength is the integer
\* of its hundredths.  The strengths of the model are 0.25 and 1.0, which
\* blend the model's samples to whole numbers.
Blend(row, filtered, strength) ==
    LET blend_factor == MinInt(strength * 2, 100)
    IN  [j \in 1..Len(row) |->
            ((100 - blend_factor) * row[j] + blend_factor * filtered[j]) \div 100]

\* ndimage.gaussian_filter(array, sigma=strength): the radius of its kernel
\* is int(truncate * sigma + 0.5) with truncate = 4.0.  For a radius of 0
\* (sigma below 0.125) the single weight is 1 and the result is the array
\* itself; the model draws no larger sigma for the Gaussian methods.
GaussianFilter(array, strength) ==
    CASE (4 * strength + 50) \div 100 = 0 -> array

\* denoise_slice_scipy(slice_array, method, strength) on a one-row slice
\* (volume_utils.py lines 89-154); scipy tells whether 'from scipy import
\* ndimage' succeeds: without it the slice is returned unchanged (lines
\* 104-108).
denoise_slice_scipy(row, method, strength, scipy) ==
    IF ~scipy THEN row
    ELSE IF method = "GAUSSIAN" THEN GaussianFilter(row, strength)
    ELSE IF method \in {"PERCENTILE_25", "PERCENTILE_75", "MEDIAN"}
    THEN Blend(row, RankFiltered(row, method), strength)
    ELSE row

\* Outlier cleaning (lines 323-326)
CleanOutliers(vol, vol_min, vol_max) ==
    IF vol_min < EXTREME_NEGATIVE_THRESHOLD
    THEN [i \in DOMAIN vol |-> [j \in DOMAIN vol[i] |->
             NpClip(vol[i][j], EXTREME_NEGATIVE_CLAMP, vol_max)]]
    ELSE vol

\* A normalized sample is the fraction num/den, kept as <<num, den>> with
\* den = HU_MAX_FIXED - HU_MIN_FIXED.
\* volume_utils.hu_to_normalized, and line 387 of create_volume
hu_to_normalized(hu_value) ==
    << hu_value - HU_MIN_FIXED, HU_MAX_FIXED - HU_MIN_FIXED >>

ClipUnitOff(x) == x

\* np.clip(x, 0.0, 1.0) on a fraction with positive denominator (line 390)
ClipUnit(x) == << NpClip(x[1], 0, x[2]), x[2] >>

\* The array written to the grid (lines 386-390)
Normalized(vol) ==
    [i \in DOMAIN vol |-> [j \in DOMAIN vol[i] |->
        ClipUnit(hu_to_normalized(vol[i][j]))]]

\* Spacing [X, Y, Z] in mm from the first sorted slice (lines 294-303)
SpacingOf(s) ==
    LET slice_thickness ==
            IF s.slice_thickness <= 0
            THEN MaxInt(s.pixel_spacing[1], s.pixel_spacing[2])
            ELSE s.slice_thickness
    IN  << s.pixel_spacing[2], s.pixel_spacing[1], slice_thickness >>

\* The diagonal of the grid transform (lines 407-419): the Z, Y and X
\* spacing times MM_TO_METERS, each entry a fraction <<mm, 1000>>.
TransformDiagonal(spacing) ==
    << <<spacing[3], MM_PER_METER>>, <<spacing[2], MM_PER_METER>>,
       <<spacing[1], MM_PER_METER>> >>

NoVolume ==
    [stacked |-> << >>, cache |-> << >>, grid |-> << >>, spacing |-> << >>,
     transform |-> << >>, hu_min |-> None, hu_max |-> None]

\* The scene create_volume runs in, as far as it reads it: the properties
\* the scene has and, where it has them, the values of denoise_enabled,
\* denoise_method and denoise_strength.
VolumeScene(props, enabled, method, strength) ==
    [properties |-> props, denoise_enabled |-> enabled,
     denoise_method |-> method, denoise_strength |-> strength]

\* The scene with the add-on's properties alone.
RegisteredScene == VolumeScene(SceneProperties, FALSE, "", 0)

\* A scene that has the unregistered properties too.
ExtendedScene(enabled, method, strength) ==
    VolumeScene(SceneProperties \cup UnregisteredProperties, enabled, method, strength)

\* The denoising step (lines 260-291): [exc, vol].  Line 260 reads
\* scene.denoise_enabled, lines 262-266 denoise_method and denoise_strength;
\* GAUSSIAN_3D imports scipy in create_volume itself (line 270).
Denoised(stacked, scene, scipy) ==
    IF SceneAccess(scene.properties, "denoise_enabled") # "none"
    THEN [exc |-> SceneAccess(scene.properties, "denoise_enabled"), vol |-> stacked]
    ELSE IF ~scene.denoise_enabled
    THEN [exc |-> "none", vol |-> stacked]
    ELSE IF FirstExc(<<SceneAccess(scene.properties, "denoise_method"),
                       SceneAccess(scene.properties, "denoise_strength")>>) # "none"
    THEN [exc |-> FirstExc(<<SceneAccess(scene.properties, "denoise_method"),
                             SceneAccess(scene.properties, "denoise_strength")>>),
          vol |-> stacked]
    ELSE IF scene.denoise_method = "GAUSSIAN_3D"
    THEN IF scipy
         THEN [exc |-> "none", vol |-> GaussianFilter(stacked, scene.denoise_strength)]
         ELSE [exc |-> "ModuleNotFoundError: No module named 'scipy'", vol |-> stacked]
    ELSE [exc |-> "none",
          vol |-> [i \in DOMAIN stacked |->
                     denoise_slice_scipy(stacked[i], scene.denoise_method,
                                         scene.denoise_strength, scipy)]]

\* What follows the grid (lines 430-492): the object is imported and named,
\* line 491 reads scene.dicom_material_preset and line 492 calls
\* create_volume_material(..., modality=, series_description=), whose
\* signature (materials.py line 9) has neither keyword.
AfterGrid(scene) ==
    FirstExc(<<SceneAccess(scene.properties, "dicom_material_preset"),
               "TypeError: create_volume_material() got an unexpected keyword argument 'modality'">>)

\* Cleaning, the raw cache, the scene properties and the grid
\* (lines 293-428) for the array vol, and the exception that ends the call
\* after them.
Written(sorted, stacked, vol, scene) ==
    CHOOSE r \in
      {[exc |-> AfterGrid(scene), stacked |-> stacked,
        cache |-> cleaned,                  \* np.save after cleaning
        grid |-> Normalized(cleaned),
        spacing |-> SpacingOf(sorted[1]),
        transform |-> TransformDiagonal(SpacingOf(sorted[1])),
        hu_min |-> Some(ArrayMin(cleaned)),
        hu_max |-> Some(ArrayMax(vol))] :
       cleaned \in {CleanOutliers(vol, ArrayMin(vol), ArrayMax(vol))}} : TRUE

\* What create_volume does with the stacked array (lines 256-492): an
\* exception of the denoising step ends the call before anything is saved.
Assemble(sorted, stacked, scene, scipy) ==
    CHOOSE r \in {IF d.exc # "none"
                  THEN [[exc |-> d.exc] @@ NoVolume EXCEPT !.stacked = stacked]
                  ELSE Written(sorted, stacked, d.vol, scene) :
                    d \in {Denoised(stacked, scene, scipy)}} : TRUE

\* create_volume(slices) with time_points_data None (lines 212-492):
\* the exception raised, the stacked array, the array saved as the raw
\* cache, the array written to the grid, and the scene properties.  No call
\* returns: one that keeps two slices ends at line 260 or, the grid
\* written, at line 491 or 492.  The headers are read (lines 233-234)
\* before anything is sorted, filtered or stacked.
create_volume(slices, scene, scipy) ==
    IF Len(slices) = 0
    THEN [exc |-> "IndexError"] @@ NoVolume           \* slices[0], line 228
    ELSE IF HeaderReads(slices) # "none"
    THEN [exc |-> HeaderReads(slices)] @@ NoVolume
    ELSE CHOOSE r \in
      {IF Len(kept) < MIN_SLICES_REQUIRED
       THEN [exc |-> "ValueError: Need at least 2 slices with matching dimensions"]
            @@ NoVolume
       ELSE Assemble(kept, [i \in 1..Len(kept) |-> kept[i].pixels], scene, scipy) :
       kept \in {SameShapeAsFirst(SortSlices(slices))}} : TRUE

\* The scenes create_volume is run in with denoising absent or off.
BaseEnvironments ==
    { [scene |-> RegisteredScene, scipy |-> TRUE],
      [scene |-> ExtendedScene(FALSE, "GAUSSIAN", 10), scipy |-> TRUE] }

\* The scenes with denoising on, and whether scipy imports.
DenoisingEnvironments ==
    { [scene |-> ExtendedScene(TRUE, "PERCENTILE_25", 100), scipy |-> TRUE],
      [scene |-> ExtendedScene(TRUE, "PERCENTILE_25", 100), scipy |-> FALSE],
      [scene |-> ExtendedScene(TRUE, "PERCENTILE_75", 25), scipy |-> TRUE],
      [scene |-> ExtendedScene(TRUE, "MEDIAN", 100), scipy |-> TRUE],
      [scene |-> ExtendedScene(TRUE, "GAUSSIAN", 10), scipy |-> TRUE],
      [scene |-> ExtendedScene(TRUE, "GAUSSIAN_3D", 10), scipy |-> TRUE],
      [scene |-> ExtendedScene(TRUE, "GAUSSIAN_3D", 10), scipy |-> FALSE],
      [scene |-> ExtendedScene(TRUE, "WIENER", 100), scipy |-> TRUE] }

\* Denoising reads the pixels alone: the model runs it on slices that
\* share position, orientation (both in the header) and unit spacing.
PlainSlices(slices) ==
    \A i \in 1..Len(slices) :
        /\ slices[i].ds = Header(Some(<<0, 0, 0>>), Some(<<1, 0, 0, 0, 1, 0>>))
        /\ slices[i].pixel_spacing = <<1, 1>>
        /\ slices[i].slice_thickness = 1

VolumeEnvironments(slices) ==
    IF PlainSlices(slices) THEN BaseEnvironments \cup DenoisingEnvironments
    ELSE BaseEnvironments

\* The grid file was written.
GridWritten(out) == out.grid # << >>

VolumeInit ==
    /\ vSlices \in SeqsUpTo(Slices, 0, MaxSlices)
    /\ vEnv \in VolumeEnvironments(vSlices)
    /\ vOut = << >>
    /\ vPc = "start"

\* One call of create_volume on the slices of a series.
CreateVolume ==
    /\ vPc = "start"
    /\ vOut' = create_volume(vSlices, vEnv.scene, vEnv.scipy)
    /\ vPc' = "done"
    /\ UNCHANGED <<vSlices, vEnv>>

\* scene.denoise_enabled is there and False.
DenoisingOff ==
    /\ "denoise_enabled" \in vEnv.scene.properties
    /\ ~vEnv.scene.denoise_enabled

SamplesOf(vol) == {<<i, j>> : i \in DOMAIN vol, j \in 1..Len(vol[1])}

\* The normalization step (lines 385-390) applied to a sample that is
\* itself a fraction n/d: (n/d - HU_MIN_FIXED) / (HU_MAX_FIXED - HU_MIN_FIXED),
\* clipped to [0, 1].
NormalizeFraction(x) ==
    ClipUnit(<< x[1] - HU_MIN_FIXED * x[2], x[2] * (HU_MAX_FIXED - HU_MIN_FIXED) >>)

\* C22: the fixed-range normalization step (subtract HU_MIN_FIXED, divide
\* by HU_MAX_FIXED - HU_MIN_FIXED, clip to [0, 1]) applied a second time to
\* its own output gives an array identical to the first output.
C22_NormalizationIdempotent ==
    (vPc = "done" /\ GridWritten(vOut)) =>
        \A ij \in SamplesOf(vOut.grid) :
            \A g \in {vOut.grid[ij[1]][ij[2]]} :
            \A again \in {NormalizeFraction(g)} :
                \* again = g; the denominator of again is a multiple of g's
                again[1] = g[1] * (again[2] \div g[2])

\* The clamp alone is idempotent: clipping a clipped sample changes nothing,
\* and every sample of the grid is in [0, 1].
ClampIsIdempotent ==
    (vPc = "done" /\ GridWritten(vOut)) =>
        \A ij \in SamplesOf(vOut.grid) :
            \A g \in {vOut.grid[ij[1]][ij[2]]} :
                /\ ClipUnit(g) = g
                /\ 0 <= g[1] /\ g[1] <= g[2]

SpacingPositiveForPositivePixelSpacing ==
    (vPc = "done" /\ GridWritten(vOut)) =>
        \A first \in {SameShapeAsFirst(SortSlices(vSlices))[1]} :
            (first.pixel_spacing[1] > 0 /\ first.pixel_spacing[2] > 0) =>
                /\ vOut.spacing = << first.pixel_spacing[2], first.pixel_spacing[1],
                                     IF first.slice_thickness > 0
                                     THEN first.slice_thickness
                                     ELSE MaxInt(first.pixel_spacing[1],
                                                 first.pixel_spacing[2]) >>
                /\ \A k \in 1..3 : vOut.spacing[k] > 0 /\ vOut.transform[k][1] > 0
                /\ \A k \in 1..3 : vOut.transform[k] = <<vOut.spacing[4 - k], 1000>>

VolumeIdle == vSlices = << >> /\ vEnv = << >> /\ vOut = << >> /\ vPc = "idle"

\* The orderings of the input list.
Orderings(n) == {p \in [1..n -> 1..n] : \A i, j \in 1..n : p[i] = p[j] => i = j}

Reordered(s, p) == [i \in 1..Len(s) |-> s[p[i]]]

\* C1: create_volume stacks the slices by ascending plane-normal projection,
\* so every reordering of the same input slice list gives the identical
\* stacked array; the order along axis 0 never depends on the input order.
C1_OrderIndependent ==
    (vPc = "done" /\ vOut.stacked # << >>) =>
        \A p \in Orderings(Len(vSlices)) :
            create_volume(Reordered(vSlices, p), vEnv.scene, vEnv.scipy).stacked
                = vOut.stacked

\* The stacked order is ascending in the projection for every input whose
\* headers hold position and orientation.
AscendingProjection ==
    (vPc = "done" /\ HeaderReads(vSlices) = "none") =>
        LET sorted == SortSlices(vSlices)
        IN  \A i \in 1..(Len(sorted) - 1) :
                ProjectionKey(sorted[i]) <= ProjectionKey(sorted[i + 1])

\* C2: with denoising disabled every sample of the grid is
\* clamp((v - HU_MIN_FIXED)/(HU_MAX_FIXED - HU_MIN_FIXED), 0, 1) of its
\* calibrated value v, lies in [0,1], is a function of v alone (whatever the
\* volume's own minimum and maximum, outlier cleaning included), and equals
\* hu_to_normalized(v) for v inside the fixed range.
C2_FixedRangeNormalization ==
    (vPc = "done" /\ GridWritten(vOut) /\ DenoisingOff) =>
        \A ij \in SamplesOf(vOut.stacked) :
            LET v == vOut.stacked[ij[1]][ij[2]]
                g == vOut.grid[ij[1]][ij[2]]
            IN  /\ g[2] = HU_MAX_FIXED - HU_MIN_FIXED
                /\ g[1] = IF v < HU_MIN_FIXED THEN 0
                          ELSE IF v > HU_MAX_FIXED THEN g[2]
                          ELSE v - HU_MIN_FIXED
                /\ 0 <= g[1] /\ g[1] <= g[2]
                /\ (HU_MIN_FIXED <= v /\ v <= HU_MAX_FIXED)
                       => g = hu_to_normalized(v)

\* A grid written from a volume whose minimum triggered outlier cleaning and
\* which holds a sample above the fixed range and one below the clamp floor
\* that cleaning does not reach.
C2_Witness ==
    /\ vPc = "done" /\ GridWritten(vOut) /\ DenoisingOff
    /\ \E ij \in SamplesOf(vOut.stacked) :
           vOut.stacked[ij[1]][ij[2]] < EXTREME_NEGATIVE_THRESHOLD
    /\ \E ij \in SamplesOf(vOut.stacked) :
           vOut.stacked[ij[1]][ij[2]] > HU_MAX_FIXED
    /\ \E ij \in SamplesOf(vOut.stacked) :
           /\ vOut.stacked[ij[1]][ij[2]] > HU_MIN_FIXED
           /\ vOut.stacked[ij[1]][ij[2]] < HU_MAX_FIXED

InsufficientSlices == "ValueError: Need at least 2 slices with matching dimensions"

SomeTwoShareShape(slices) ==
    \E i, j \in 1..Len(slices) : i # j /\ Shape(slices[i]) = Shape(slices[j])

\* C13: create_volume raises InsufficientSlices (ValueError) when fewer
\* than 2 of the input slices share a pixel-buffer shape, and only then:
\* when at least 2 slices share a shape it writes a grid of shape (N,H,W),
\* N being the number of slices the shape filter keeps.
C13_InsufficientSlicesIff ==
    vPc = "done" =>
        /\ ~SomeTwoShareShape(vSlices) => vOut.exc = InsufficientSlices
        /\ SomeTwoShareShape(vSlices) =>
              /\ vOut.exc # InsufficientSlices
              /\ GridWritten(vOut)
              /\ Len(vOut.grid) = Len(SameShapeAsFirst(SortSlices(vSlices)))
              /\ \A i \in 1..Len(vOut.grid) :
                     Len(vOut.grid[i]) = Len(vOut.grid[1])

\* What holds: on a non-empty list whose headers hold position and
\* orientation the error is raised exactly when fewer than 2 slices have
\* the shape of the first slice in projection order, and otherwise a grid
\* that is written has one row block per kept slice.
ShapeFilterRule ==
    (vPc = "done" /\ Len(vSlices) > 0 /\ HeaderReads(vSlices) = "none") =>
        LET kept == SameShapeAsFirst(SortSlices(vSlices))
        IN  IF Len(kept) < MIN_SLICES_REQUIRED
            THEN vOut.exc = InsufficientSlices /\ vOut.grid = << >>
            ELSE /\ vOut.exc # InsufficientSlices
                 /\ GridWritten(vOut) =>
                        /\ Len(vOut.grid) = Len(kept)
                        /\ \A i \in 1..Len(kept) :
                               Len(vOut.grid[i]) = Len(kept[1].pixels)

\* C14: a stacked array holding a sample below EXTREME_NEGATIVE_THRESHOLD
\* has, after cleaning, minimum exactly EXTREME_NEGATIVE_CLAMP and every
\* sample above that floor unchanged; an array whose minimum is not below
\* the threshold is left unchanged.  (With denoising off the stacked array
\* is the array cleaned, and the cache is the array after cleaning.)
C14_OutlierCleaning ==
    (vPc = "done" /\ GridWritten(vOut) /\ DenoisingOff) =>
        IF ArrayMin(vOut.stacked) < EXTREME_NEGATIVE_THRESHOLD
        THEN /\ ArrayMin(vOut.cache) = EXTREME_NEGATIVE_CLAMP
             /\ \A ij \in SamplesOf(vOut.stacked) :
                    vOut.stacked[ij[1]][ij[2]] > EXTREME_NEGATIVE_CLAMP =>
                        vOut.cache[ij[1]][ij[2]] = vOut.stacked[ij[1]][ij[2]]
        ELSE vOut.cache = vOut.stacked

\* What holds: the same, for arrays whose maximum is not below the floor.
OutlierCleaningAboveFloor ==
    (vPc = "done" /\ GridWritten(vOut) /\ DenoisingOff
        /\ ArrayMax(vOut.stacked) >= EXTREME_NEGATIVE_CLAMP) =>
        IF ArrayMin(vOut.stacked) < EXTREME_NEGATIVE_THRESHOLD
        THEN /\ ArrayMin(vOut.cache) = EXTREME_NEGATIVE_CLAMP
             /\ \A ij \in SamplesOf(vOut.stacked) :
                    vOut.stacked[ij[1]][ij[2]] > EXTREME_NEGATIVE_CLAMP =>
                        vOut.cache[ij[1]][ij[2]] = vOut.stacked[ij[1]][ij[2]]
        ELSE vOut.cache = vOut.stacked

\* C15: the raw-array cache create_volume persists holds the calibrated
\* samples as they were before outlier cleaning and normalization (a sample
\* of -3000 is still -3000 in the cache), together with the spacing
\* [x, y, z]; it is never the clamped or the normalized array.
C15_CacheIsUncleaned ==
    (vPc = "done" /\ GridWritten(vOut) /\ DenoisingOff) =>
        /\ vOut.cache = vOut.stacked
        /\ vOut.spacing = SpacingOf(SortSlices(vSlices)[1])

\* What holds: the cache is the array after cleaning and before
\* normalization, saved with the spacing of the first sorted slice.
CacheIsCleanedArray ==
    (vPc = "done" /\ GridWritten(vOut) /\ DenoisingOff) =>
        /\ vOut.cache = CleanOutliers(vOut.stacked, ArrayMin(vOut.stacked),
                                      ArrayMax(vOut.stacked))
        /\ vOut.grid = Normalized(vOut.cache)
        /\ vOut.spacing = SpacingOf(SortSlices(vSlices)[1])

(***************************************************************************)
(* Slice loading: dicom_io.load_slice                                      *)
(***************************************************************************)

\* A header attribute as getattr(ds, name, default) sees it: absent (the
\* default is returned), present with an empty value (pydicom gives None),
\* or present with a value.
Attr(values) ==
    {[kind |-> "absent", v |-> None], [kind |-> "empty", v |-> None]}
    \cup {[kind |-> "value", v |-> Some(x)] : x \in values}

\* getattr(ds, name, default)
GetAttr(a, default) ==
    IF a.kind = "absent" THEN Some(default)
    ELSE IF a.kind = "empty" THEN None
    ELSE a.v

\* The files load_slice is given.
SliceFiles ==
    [readable : BOOLEAN,
     pixel_data : {None, Some(<<0, 1000>>)},
     RescaleSlope : Attr({2}), RescaleIntercept : Attr({-1024}),
     PixelSpacing : Attr({<<3, 4>>}),
     ImagePositionPatient : Attr({<<0, 0, 5>>}),
     ImageOrientationPatient : {[kind |-> "value", v |-> Some(<<1, 0, 0, 0, 1, 0>>)]},
     SliceThickness : Attr({2}), SliceLocation : Attr({5}),
     InstanceNumber : Attr({7}),
     WindowCenter : Attr({40}), WindowWidth : {[kind |-> "value", v |-> Some(400)]}]

\* float(x), int(x) and iteration raise TypeError on None.
RaisesOnNone(x) == IsNone(x)

\* The conversions of lines 312-320 and 333-336 that are outside any try
\* block: each raises when the attribute is present with an empty value.
SliceHeaderRaises(f) ==
    \/ RaisesOnNone(GetAttr(f.RescaleSlope, 1))
    \/ RaisesOnNone(GetAttr(f.RescaleIntercept, 0))
    \/ RaisesOnNone(GetAttr(f.PixelSpacing, <<1, 1>>))
    \/ RaisesOnNone(GetAttr(f.ImagePositionPatient, <<0, 0, 0>>))
    \/ RaisesOnNone(GetAttr(f.ImageOrientationPatient, <<1, 0, 0, 0, 1, 0>>))
    \/ RaisesOnNone(GetAttr(f.InstanceNumber, 0))
    \/ (f.WindowCenter.kind # "absent" /\ RaisesOnNone(GetAttr(f.WindowCenter, 0)))
    \/ (f.WindowWidth.kind # "absent" /\ RaisesOnNone(GetAttr(f.WindowWidth, 0)))


\* `x if x is not None else 1.0` of lines 322-326
OrDefault(x, default) == IF IsNone(x) THEN default ELSE x[1]

\* load_slice(path): [exc |-> "none" or the exception raised,
\* value |-> None or the slice record].
load_slice(f) ==
    IF ~f.readable THEN [exc |-> "none", value |-> None]        \* lines 298-302
    ELSE IF IsNone(f.pixel_data)
    THEN [exc |-> "none", value |-> None]                        \* lines 305-309
    ELSE IF SliceHeaderRaises(f)
    THEN [exc |-> "TypeError", value |-> None]    \* no handler around them
    ELSE
      LET rescale_slope == GetAttr(f.RescaleSlope, 1)[1]
          rescale_intercept == GetAttr(f.RescaleIntercept, 0)[1]
      IN [exc |-> "none",
          value |-> Some(
            [pixels |-> [j \in 1..Len(f.pixel_data[1]) |->
                           f.pixel_data[1][j] * rescale_slope + rescale_intercept],
             pixel_spacing |-> GetAttr(f.PixelSpacing, <<1, 1>>)[1],
             slice_thickness |-> OrDefault(GetAttr(f.SliceThickness, 1), 1),
             slice_location |-> OrDefault(GetAttr(f.SliceLocation, 0), 0),
             instance_number |-> GetAttr(f.InstanceNumber, 0)[1],
             position |-> GetAttr(f.ImagePositionPatient, <<0, 0, 0>>)[1],
             orientation |->
                 GetAttr(f.ImageOrientationPatient, <<1, 0, 0, 0, 1, 0>>)[1],
             window_center |-> IF f.WindowCenter.kind = "absent" THEN None
                               ELSE f.WindowCenter.v,
             window_width |-> IF f.WindowWidth.kind = "absent" THEN None
                              ELSE f.WindowWidth.v,
             rescale_slope |-> rescale_slope,
             rescale_intercept |-> rescale_intercept,
             \* "ds": ds (line 342), as far as create_volume reads it
             ds |-> Header(f.ImagePositionPatient.v,
                           f.ImageOrientationPatient.v)])]

SliceInit ==
    /\ sFile \in SliceFiles
    /\ sOut = << >>
    /\ sPc = "start"

\* One call of load_slice.
LoadSlice ==
    /\ sPc = "start"
    /\ sOut' = load_slice(sFile)
    /\ sPc' = "done"
    /\ UNCHANGED sFile

SliceIdle == sFile = << >> /\ sOut = << >> /\ sPc = "idle"

\* C12: load_slice never raises; every failure - unreadable file, missing
\* pixel data, a header attribute present with an empty value - gives None.
C12_LoadSliceNeverRaises ==
    sPc = "done" =>
        /\ sOut.exc = "none"
        /\ (\/ ~sFile.readable
            \/ IsNone(sFile.pixel_data)
            \/ SliceHeaderRaises(sFile)) => sOut.value = None

\* What holds: the two guarded failures give None without raising.
GuardedFailuresGiveNone ==
    (sPc = "done" /\ (~sFile.readable \/ IsNone(sFile.pixel_data))) =>
        sOut = [exc |-> "none", value |-> None]

(***************************************************************************)
(* A session of assemblies: volume_creation.create_volume called for one   *)
(* series after another, on its single-volume path or with                 *)
(* time_points_data (_create_4d_volume_sequence)                           *)
(***************************************************************************)

MaxCalls == 2

Max4DFrames == 2

\* Series numbers: 1 and 10 share the decimal prefix "1".
SeriesNumbers == {1, 10}

\* The record of an axial slice at height z of unit spacing.
SliceAt(z, row) ==
    SliceOf(Header(Some(<<0, 0, z>>), Some(<<1, 0, 0, 0, 1, 0>>)), row, <<1, 1>>, 1)

\* The record of a file whose header has no ImagePositionPatient.
SliceWithoutPosition(row) ==
    SliceOf(Header(None, Some(<<1, 0, 0, 0, 1, 0>>)), row, <<1, 1>>, 1)

\* The slice lists handed to the single-volume path: two slices of one
\* shape, two slices of different shapes, no slice, and two slices the
\* first of which has no position in its header.
SessionSlices ==
    { << SliceAt(0, <<100>>), SliceAt(1, <<4000>>) >>,
      << SliceAt(0, <<100>>), SliceAt(1, <<100, 4000>>) >>,
      << >>,
      << SliceWithoutPosition(<<100>>), SliceAt(1, <<4000>>) >> }

\* The time points handed to the 4D path, each the load_slice results of
\* its files (None for a file that does not load): two slices of one shape,
\* one loadable slice, two slices of different shapes, and two slices the
\* first of which has no position in its header.
SessionTimePoints ==
    { << Some(SliceAt(0, <<100>>)), Some(SliceAt(1, <<4000>>)) >>,
      << Some(SliceAt(0, <<100>>)), None >>,
      << Some(SliceAt(0, <<100>>)), Some(SliceAt(1, <<100, 4000>>)) >>,
      << Some(SliceWithoutPosition(<<100>>)), Some(SliceAt(1, <<4000>>)) >> }

\* str(uuid.uuid4())[:8]: a fresh identifier per call (drawn at random by
\* the code; taken here never to repeat).
NpyPath(unique_id) == [file |-> "ct_volume", id |-> unique_id, ext |-> "npy"]

\* f"ct_volume_{unique_id}.vdb" (line 377)
VdbPath(unique_id) == [file |-> "ct_volume", id |-> unique_id, ext |-> "vdb"]

\* f"ct_s{series_number}_{frame_idx:03d}.vdb" (line 109)
FramePath(series_number, frame_idx) ==
    [file |-> "ct_s", series |-> series_number, frame |-> frame_idx,
     ext |-> "vdb"]

\* Whether the decimal digits of n are a prefix of those of m.
RECURSIVE IsDigitPrefix(_, _)
IsDigitPrefix(n, m) ==
    IF m = n THEN TRUE
    ELSE IF m < 10 THEN FALSE
    ELSE IsDigitPrefix(n, m \div 10)

\* Object names: "CT_Volume_S<n>" (kind "volume"), "CT_Volume_S<n>_4D"
\* (kind "4D"), and the name an imported object has before it is renamed.
\* name.startswith(f"CT_Volume_S{series_number}") of clean_old_volumes:
StartsWithVolumeName(o, series_number) ==
    o.kind \in {"volume", "4D"} /\ IsDigitPrefix(series_number, o.series)

\* clean_old_volumes(f"{modality}_Volume_S{series_number}")
clean_old_volumes(objects, series_number) ==
    {o \in objects : ~StartsWithVolumeName(o, series_number)}

\* One time point of _create_4d_volume_sequence (lines 33-111):
\* [exc, frame], the frame None when the time point is skipped (lines
\* 43-45) or when a header read of lines 49-50 raises, which ends the loop
\* and the call; else the frame written.
Frame4D(tp) ==
    LET loaded == SelectSeq(tp, LAMBDA x : ~IsNone(x))
        slices == [i \in 1..Len(loaded) |-> loaded[i][1]]
    IN  IF Len(slices) < MIN_SLICES_REQUIRED
        THEN [exc |-> "none", frame |-> None]
        ELSE IF HeaderReads(slices) # "none"
        THEN [exc |-> HeaderReads(slices), frame |-> None]
        ELSE CHOOSE r \in
               {[exc |-> "none",
                 frame |-> Some(
                     [stacked |-> [i \in 1..Len(kept) |-> kept[i].pixels],
                      grid |-> Normalized([i \in 1..Len(kept) |-> kept[i].pixels]),
                      spacing |-> SpacingOf(kept[1])])] :
                kept \in {SameShapeAsFirst(SortSlices(slices))}} : TRUE

\* _create_4d_volume_sequence(time_points_data, series_number) in a scene:
\* the frames written, in order, the exception that ends the call, and
\* what became of the imported object.  Line 127 reads first_slices[0],
\* line 128 names the object, line 132 sets frame_duration, line 161 reads
\* scene.dicom_material_preset and line 162 calls
\* create_volume_material(..., modality=, series_description=), whose
\* signature has neither keyword: no call returns, and the raw array
\* (line 195) is never saved.  A header read that raises in the loop of
\* the time points (lines 49-50) ends the call there: the frames of the
\* time points before it stay written and no object is imported.
create_4d_volume_sequence(time_points_data, series_number, scene) ==
    LET Result(steps) ==
          LET raised == {k \in 1..Len(steps) : steps[k].exc # "none"}
              \* the time point the loop ends in, Len + 1 when it runs out
              stop == IF raised = {} THEN Len(steps) + 1
                      ELSE CHOOSE k \in raised : \A i \in raised : k <= i
              frames == [k \in 1..Len(steps) |->
                           IF k < stop THEN steps[k].frame ELSE None]
              idx == {k \in 1..Len(frames) : ~IsNone(frames[k])}
          IN [frames |-> frames,
              paths |-> [j \in 1..Cardinality(idx) |->
                           FramePath(series_number,
                               CHOOSE k \in idx :
                                   Cardinality({i \in idx : i < k}) = j - 1)],
              exc |-> IF raised # {} THEN steps[stop].exc
                      ELSE IF idx = {}
                      THEN "ValueError: No valid time points created"
                      ELSE IF IsNone(frames[1])    \* first_slices is None
                      THEN "TypeError: 'NoneType' object is not subscriptable"
                      ELSE AfterGrid(scene),
              object |-> IF raised # {} \/ idx = {} THEN "none"
                         ELSE IF IsNone(frames[1]) THEN "imported"
                         ELSE "4D",
              \* vol_obj.data.frame_duration = len(vdb_paths) (line 132)
              frame_duration |-> IF raised = {} /\ idx # {} /\ ~IsNone(frames[1])
                                 THEN Cardinality(idx) ELSE 0]
    IN  CHOOSE r \in
          {Result(steps) :
             steps \in {[k \in 1..Len(time_points_data) |->
                           Frame4D(time_points_data[k])]}} : TRUE

\* The scenes of a session: denoising absent or off.
SessionScenes == {e.scene : e \in BaseEnvironments}

AssemblyInit ==
    /\ aScene \in SessionScenes
    /\ aLog = << >>
    /\ aObjects = {}
    /\ aNext = 1
    /\ aLast = << >>

\* create_volume(slices, series_number) on the single-volume path: a call
\* that gets as far as the grid has cleaned the objects of its name (line
\* 356), saved the raw array and the grid (lines 363-428) and named the
\* imported object (line 437) before it raises.
AssembleVolume(slices, series_number) ==
    /\ aNext <= MaxCalls
    /\ \E r \in {create_volume(slices, aScene, TRUE)} :
         /\ aLast' = [call |-> "single", series |-> series_number,
                      exc |-> r.exc,
                      paths |-> IF GridWritten(r)
                                THEN <<NpyPath(aNext), VdbPath(aNext)>>
                                ELSE << >>,
                      frames |-> << >>, frame_duration |-> 0]
         /\ IF GridWritten(r)
            THEN /\ aLog' = aLog \o <<NpyPath(aNext), VdbPath(aNext)>>
                 /\ aObjects' = clean_old_volumes(aObjects, series_number)
                                  \cup {[kind |-> "volume", series |-> series_number]}
            ELSE UNCHANGED <<aLog, aObjects>>
    /\ aNext' = aNext + 1
    /\ UNCHANGED aScene

\* create_volume(slices, series_number, time_points_data) with
\* time_points_data given.
AssembleSequence(time_points_data, series_number) ==
    /\ aNext <= MaxCalls
    /\ \E r \in {create_4d_volume_sequence(time_points_data, series_number, aScene)} :
         /\ aLast' = [call |-> "4D", series |-> series_number, exc |-> r.exc,
                      paths |-> r.paths,
                      frames |-> r.frames, frame_duration |-> r.frame_duration]
         /\ aLog' = aLog \o r.paths
         /\ aObjects' =
              IF r.object = "4D"
              THEN aObjects \cup {[kind |-> "4D", series |-> series_number]}
              ELSE IF r.object = "imported"      \* imported, never renamed
              THEN aObjects \cup {[kind |-> "imported", series |-> series_number]}
              ELSE aObjects
    /\ aNext' = aNext + 1
    /\ UNCHANGED aScene

AssemblyIdle ==
    aScene = << >> /\ aLog = << >> /\ aObjects = {} /\ aNext = 0 /\ aLast = << >>

\* C16: no grid file path is ever written twice: every call - for a new
\* series, for a re-assembly of the same series, and for every time-point
\* grid of a 4D sequence - writes under file names no earlier assembly of
\* the session has used.
C16_NoPathWrittenTwice ==
    \A i, j \in 1..Len(aLog) : aLog[i] = aLog[j] => i = j

\* What holds: the files of the single-volume path are never written twice.
SingleVolumePathsFresh ==
    \A i, j \in 1..Len(aLog) :
        (aLog[i].file = "ct_volume" /\ aLog[i] = aLog[j]) => i = j

\* C25: in 4D sequence assembly every grid written for a time point is
\* stacked from at least MIN_SLICES_REQUIRED slices of identical pixel
\* shape; a time point with fewer slices after the shape filter gives no
\* grid.
C25_FramesHaveTwoSlices ==
    (aNext > 1 /\ aLast.call = "4D") =>
        \A k \in 1..Len(aLast.frames) :
            ~IsNone(aLast.frames[k]) =>
                \A stacked \in {aLast.frames[k][1].stacked} :
                    /\ Len(stacked) >= MIN_SLICES_REQUIRED
                    /\ \A i \in 1..Len(stacked) : Len(stacked[i]) = Len(stacked[1])

\* What holds: the slices of a frame have one shape, and a time point with
\* fewer than two loadable slices gives no grid.
FramesHaveOneShape ==
    (aNext > 1 /\ aLast.call = "4D") =>
        \A k \in 1..Len(aLast.frames) :
            ~IsNone(aLast.frames[k]) =>
                \A stacked \in {aLast.frames[k][1].stacked} :
                    /\ Len(stacked) >= 1
                    /\ \A i \in 1..Len(stacked) : Len(stacked[i]) = Len(stacked[1])

\* The number of grids the last 4D call wrote.
GridsWritten == Cardinality({k \in 1..Len(aLast.frames) : ~IsNone(aLast.frames[k])})

\* C26: in 4D sequence assembly a time point with fewer than two loadable
\* slices is skipped without affecting the others: whenever at least one
\* time point (not necessarily the first) yields a grid the call completes
\* and returns a sequence whose frame count is the number of grids written;
\* it fails with 'No valid time points created' only when no time point
\* yields a grid.
C26_SkippedTimePointIsolated ==
    (aNext > 1 /\ aLast.call = "4D") =>
        /\ GridsWritten > 0 =>
              (aLast.exc = "none" /\ aLast.frame_duration = GridsWritten)
        /\ GridsWritten = 0 =>
              aLast.exc = "ValueError: No valid time points created"

\* The exceptions of the header reads of lines 49-50.
HeaderExceptions ==
    {HeaderAccess(Header(None, None), name) :
        name \in {"ImagePositionPatient", "ImageOrientationPatient"}}

\* What holds: when no header read raises, the sequence object has one
\* frame per grid when the first time point yields a grid, whatever the
\* later ones do, the call then ending in the material step, and the call
\* raises 'No valid time points created' exactly when no grid was written.
SkippedLaterTimePointIsolated ==
    (aNext > 1 /\ aLast.call = "4D" /\ aLast.exc \notin HeaderExceptions) =>
        /\ (Len(aLast.frames) > 0 /\ ~IsNone(aLast.frames[1])) =>
              (aLast.exc = AfterGrid(aScene) /\ aLast.frame_duration = GridsWritten)
        /\ GridsWritten = 0 <=>
              aLast.exc = "ValueError: No valid time points created"

\* C24: cleanup during assembly is keyed by series: a create_volume call
\* for series number n on its single-volume path removes nothing but the
\* volume object of series n; the objects of every other series (series 10
\* when n = 1) and the 4D object of series n stay in the scene, and every
\* file written before is left as it was.
C24_CleanupKeyedBySeries ==
    [][aLast'.call = "single" =>
          /\ \A o \in aObjects :
                (o.series # aLast'.series \/ o.kind # "volume") => o \in aObjects'
          /\ SubSeq(aLog', 1, Len(aLog)) = aLog
          /\ \A i \in Len(aLog) + 1..Len(aLog') :
                \A j \in 1..Len(aLog) : aLog'[i] # aLog[j]]_vars

\* What holds: a call for series n keeps every object whose series number
\* does not begin with the digits of n, and no call deletes or rewrites a
\* file of the single-volume path.
CleanupKeepsOtherPrefixes ==
    [][aLast'.call = "single" =>
          /\ \A o \in aObjects :
                ~IsDigitPrefix(aLast'.series, o.series) => o \in aObjects'
          /\ SubSeq(aLog', 1, Len(aLog)) = aLog
          /\ \A i \in Len(aLog) + 1..Len(aLog') :
                \A j \in 1..Len(aLog) : aLog'[i] # aLog[j]]_vars

(***************************************************************************)
(* Tissue volume: measurements.calculate_tissue_volume                     *)
(***************************************************************************)

MaxSamples == 3

MM3_TO_ML == 1000

\* Sample values and thresholds (HU); spacings (mm), a non-positive slice
\* thickness included.
MeasureValues == {0, 400, 1000}

MeasureSpacings == [row : {1, 2}, col : {1, 2}, thickness : {-1, 1, 3}]

InRangeExclusive(v, hu_min, hu_max) == v > hu_min /\ v < hu_max

InRangeAboveBoth(v, hu_min, hu_max) == v >= hu_min /\ v >= hu_max

\* One element of `(vol_array >= hu_min) & (vol_array <= hu_max)` (line 36)
InRange(v, hu_min, hu_max) == v >= hu_min /\ v <= hu_max

\* np.sum(mask) (line 39); samples is the array in C order.
VoxelCount(samples, hu_min, hu_max) ==
    Cardinality({k \in 1..Len(samples) : InRange(samples[k], hu_min, hu_max)})

\* calculate_tissue_volume: the volume in mL as the fraction <<num, den>>
\* with den = MM3_TO_ML (lines 35-48).
calculate_tissue_volume(samples, hu_min, hu_max, pixel_spacing, slice_thickness) ==
    LET voxel_count == VoxelCount(samples, hu_min, hu_max)
        voxel_volume_mm3 == pixel_spacing[1] * pixel_spacing[2] * slice_thickness
        total_volume_mm3 == voxel_count * voxel_volume_mm3
    IN  << total_volume_mm3, MM3_TO_ML >>

MeasureInit ==
    /\ mArray \in SeqsUpTo(MeasureValues, 0, MaxSamples)
    /\ mMin \in MeasureValues
    /\ mMax \in MeasureValues
    /\ mSpacing \in MeasureSpacings
    /\ mOut = << >>
    /\ mArrayAfter = << >>
    /\ mPc = "start"

\* One call of calculate_tissue_volume; the array is only read.
CalculateTissueVolume ==
    /\ mPc = "start"
    /\ mOut' = calculate_tissue_volume(mArray, mMin, mMax,
                   <<mSpacing.row, mSpacing.col>>, mSpacing.thickness)
    /\ mArrayAfter' = mArray
    /\ mPc' = "done"
    /\ UNCHANGED <<mArray, mMin, mMax, mSpacing>>

MeasureIdle ==
    /\ mArray = << >> /\ mMin = 0 /\ mMax = 0 /\ mSpacing = << >>
    /\ mOut = << >> /\ mArrayAfter = << >> /\ mPc = "idle"

\* C17: calculate_tissue_volume returns
\* count * row_spacing * col_spacing * slice_thickness / 1000, count being
\* the number of samples v with hu_min <= v <= hu_max (both inclusive); it
\* returns exactly 0 when no sample is in range (hu_min > hu_max included)
\* and leaves its input array as it was.
C17_TissueVolumeFormula ==
    mPc = "done" =>
        LET count == Cardinality({k \in 1..Len(mArray) :
                         mMin <= mArray[k] /\ mArray[k] <= mMax})
        IN  /\ mOut = << count * mSpacing.row * mSpacing.col * mSpacing.thickness,
                         1000 >>
            /\ (count = 0 => mOut[1] = 0)
            /\ (mMin > mMax => mOut[1] = 0)
            /\ mArrayAfter = mArray

\* A call on an array with a sample on each threshold and one outside.
C17_Witness ==
    /\ mPc = "done" /\ mMin < mMax
    /\ \E k \in 1..Len(mArray) : mArray[k] = mMin
    /\ \E k \in 1..Len(mArray) : mArray[k] = mMax
    /\ \E k \in 1..Len(mArray) : mArray[k] < mMin
    /\ mOut[1] = 2 * mSpacing.row * mSpacing.col * mSpacing.thickness

\* a/b <= c/d for positive b, d
FracLeq(x, y) == x[1] * y[2] <= y[1] * x[2]

\* C18: for a fixed array and positive spacing, widening the threshold
\* interval (lowering hu_min and/or raising hu_max) never decreases the
\* returned volume.
C18_MonotoneInInterval ==
    (mPc = "done" /\ mSpacing.thickness > 0) =>
        \A lo, hi \in MeasureValues :
            (lo <= mMin /\ hi >= mMax) =>
                FracLeq(mOut,
                        calculate_tissue_volume(mArray, lo, hi,
                            <<mSpacing.row, mSpacing.col>>, mSpacing.thickness))

\* A call whose volume is positive and strictly smaller than that of a wider
\* interval.
C18_Witness ==
    /\ mPc = "done" /\ mSpacing.thickness > 0 /\ mOut[1] > 0
    /\ \E lo, hi \in MeasureValues :
          /\ lo <= mMin /\ hi >= mMax
          /\ ~FracLeq(calculate_tissue_volume(mArray, lo, hi,
                          <<mSpacing.row, mSpacing.col>>, mSpacing.thickness),
                      mOut)

(***************************************************************************)
(* Operators on the persisted patient record (operators.py): visualize     *)
(* series, set tool, toggle selection, toggle visibility, reload.          *)
(*                                                                         *)
(* scene.dicom_patient_data is a string property of the scene.  A session  *)
(* starts with the record Load Patient leaves: the empty string, since     *)
(* load_patient_from_folder raises for every series (see C11) and line 50  *)
(* is the one place that writes a record that was not read from the scene  *)
(* first.  Every operator reads the record with from_json and, on some     *)
(* paths, writes it back with to_json.                                     *)
(***************************************************************************)
OperatorUids == <<"A", "B">>

\* The uid an operator is invoked with: one of the record or an unknown one.
OperatorUidArguments == {"A", "B", "Z"}

OperatorFiles == << <<"a1", "a2">>, <<"b1", "b2">> >>

OperatorPaths == {"a1", "a2", "b1", "b2"}

\* What load_slice does with a path: it returns a slice, returns None, or
\* raises (dicom_io.py lines 291-344; see C12).
SliceOutcomes == {"slice", "none", "raise"}

\* The disks of a session: the first file of every series loads, the second
\* one loads, is skipped or makes load_slice raise.
Disks ==
    {d \in [OperatorPaths -> SliceOutcomes] :
        \A k \in 1..Len(OperatorFiles) : d[OperatorFiles[k][1]] = "slice"}

Tools == {"NONE", "VISUALIZATION", "MEASUREMENT"}

\* The keys of a dict.
DictKeys(d) == {d.items[k][1] : k \in 1..Len(d.items)}

\* d[key] = value: an existing key keeps its place, a new one is appended.
DictSet(d, key, value) ==
    IF key \in DictKeys(d)
    THEN PyDict([k \in 1..Len(d.items) |->
                   IF d.items[k][1] = key THEN <<key, value>> ELSE d.items[k]])
    ELSE PyDict(Append(d.items, <<key, value>>))

\* Patient.get_series_by_uid: the index of the first series with the uid,
\* 0 for None.
get_series_by_uid(patient, series_uid) ==
    LET hits == {k \in 1..Len(patient.series) :
                   patient.series[k].fields.series_instance_uid = series_uid}
    IN  IF hits = {} THEN 0 ELSE CHOOSE k \in hits : \A j \in hits : k <= j

\* The loop "for path in file_paths: slice_data = load_slice(path)": the
\* slices collected and their number, or the exception of the first path
\* that raises.  The files of a session are axial slices of one shape with
\* a full header, the k-th of a series at height k.
LoadSlices(disk, paths) ==
    [exc    |-> \E k \in 1..Len(paths) : disk[paths[k]] = "raise",
     count  |-> Cardinality({k \in 1..Len(paths) : disk[paths[k]] = "slice"}),
     slices |-> LET loaded == SelectSeq([k \in 1..Len(paths) |-> k],
                                        LAMBDA k : disk[paths[k]] = "slice")
                IN  [i \in 1..Len(loaded) |-> SliceAt(loaded[i], <<100>>)]]

\* The parameters of the create_volume that operators.py imports
\* (from .volume import create_volume; volume.py line 24).
VolumeCreateVolumeParameters == {"slices"}

\* A call of volume.create_volume on a list of slice records: [exc, name].
\* A keyword that is no parameter (series_number, lines 793 and 962 of
\* operators.py) raises TypeError before the body runs.  The body reads
\* every slice's header, orientation then position, in list order (volume.py
\* lines 29-31), sorts the slices and keeps those of the first one's shape
\* (lines 43-47; slices[0] of an empty list raises at line 46), and raises
\* ValueError for fewer than two (lines 49-50).  It never gets as far as an
\* object: volume.py imports log, a SimpleLogger, from dicom_io (line 7)
\* and calls it (line 61 for a thickness that is not positive, else line
\* 68); clean_temp_dir swallows the same error (lines 18-22).
CallCreateVolume(keywords, slices) ==
    IF ~(keywords \subseteq VolumeCreateVolumeParameters)
    THEN [exc |-> "TypeError: create_volume() got an unexpected keyword argument",
          name |-> ""]
    ELSE IF HeaderReads(slices) # "none"
    THEN [exc |-> HeaderReads(slices), name |-> ""]
    ELSE IF Len(slices) = 0
    THEN [exc |-> "IndexError", name |-> ""]
    ELSE IF Len(SameShapeAsFirst(SortSlices(slices))) < 2
    THEN [exc |-> "ValueError: Need at least 2 slices with matching dimensions",
          name |-> ""]
    ELSE [exc |-> "TypeError: 'SimpleLogger' object is not callable",
          name |-> ""]

\* The object names holding "_Volume_": the ones _clear_all_volumes (lines
\* 1005-1015) and reload (lines 1391-1393) remove.  "CT_Volume" is none.
HasVolumePattern(name) == name \in {"CT_Volume_S1", "CT_Volume_S2"}

ClearAllVolumes(objects) == {o \in objects : ~HasVolumePattern(o)}

SetSeries(patient, k, field, value) ==
    [patient EXCEPT !.series[k].fields[field] = value]

\* calculate_and_store_tissue_volumes(context, series) for the series at
\* position k (measurements.py lines 59-117): [patient, result].  Without
\* volume data it returns False at line 79.  With it, line 94 imports
\* get_tissue_thresholds_from_preset from .properties, which defines no
\* such name: the ImportError is caught at line 115, before line 98 could
\* assign series.tissue_volumes, and the call returns False.  The series
\* is left as it was either way.
calculate_and_store_tissue_volumes(patient, k, available, props) ==
    [patient |-> patient, result |-> FALSE]

\* The names "from .measurements import ..." finds: the directory
\* measurements/ is a package and hides the module measurements.py, so the
\* names are those of measurements/__init__.py (lines 3-34).
MeasurementsPackageNames ==
    {"DicomLandmarkProperty", "DicomMeasurementProperty",
     "register_measurement_props", "unregister_measurement_props",
     "DICOM_OT_load_measurement_template", "DICOM_OT_assign_landmark",
     "DICOM_OT_clear_landmark", "DICOM_OT_clear_measurements",
     "DICOM_OT_export_measurements_csv", "VIEW3D_PT_dicom_measurements",
     "classes", "register", "unregister", "bpy",
     "properties", "operators", "panels"}

\* "from .measurements import name" (operators.py lines 806 and 972)
ImportFromMeasurements(name) ==
    IF name \in MeasurementsPackageNames THEN "none"
    ELSE "ImportError: cannot import name"

\* The outcome of one operator run.
Outcome(op, result, exc, selected, attempted, assembled) ==
    [op |-> op, result |-> result, exc |-> exc, selected |-> selected,
     attempted |-> attempted, assembled |-> assembled]

OperatorsInit ==
    /\ oScene \in ScenePropertySets
    /\ oData = None
    /\ oTool = "NONE"
    /\ oDisk \in Disks
    /\ oObjects = {}
    /\ oLast = Outcome("none", "none", "none", {}, {}, {})

\* IMPORT_OT_dicom_visualize_series.execute (lines 748-819).  The slices are
\* loaded outside the try block: an exception of load_slice leaves the
\* operator ("raised").
VisualizeSeries(series_uid) ==
    \E patient \in {IF IsNone(oData) THEN None ELSE from_json(oData[1])} :
    \E k \in {IF IsNone(patient) THEN 0 ELSE get_series_by_uid(patient[1], series_uid)} :
    \E ld \in {IF k = 0 THEN [exc |-> FALSE, count |-> 0, slices |-> << >>]
               ELSE LoadSlices(oDisk, patient[1].series[k].fields.file_paths.items)} :
    \E cv \in {CallCreateVolume({"slices", "series_number"}, ld.slices)} :
    \E available \in BOOLEAN :
        /\ IF k = 0
           THEN /\ oLast' = Outcome("visualize_series", "CANCELLED", "none",
                                    {series_uid}, {}, {})
                /\ UNCHANGED <<oData, oObjects>>
           ELSE IF ld.exc
           THEN /\ oLast' = Outcome("visualize_series", "raised", "load_slice",
                                    {series_uid}, {}, {})
                /\ UNCHANGED <<oData, oObjects>>
           ELSE IF ld.count < MIN_SLICES_REQUIRED
           THEN /\ oLast' = Outcome("visualize_series", "CANCELLED", "none",
                                    {series_uid}, {}, {})
                /\ UNCHANGED <<oData, oObjects>>
           ELSE IF cv.exc # "none"
           THEN /\ oLast' = Outcome("visualize_series", "CANCELLED", cv.exc,
                                    {series_uid}, {series_uid}, {})
                /\ UNCHANGED <<oData, oObjects>>
           ELSE \E shown \in {[SetSeries(SetSeries(patient[1], k, "is_loaded", TRUE),
                                           k, "is_visible", TRUE)
                                   EXCEPT !.volume_objects =
                                              DictSet(@, series_uid, cv.name)]} :
                \E imp \in {ImportFromMeasurements("calculate_and_store_tissue_volumes")} :
                /\ oData' = IF imp # "none" THEN Some(to_json(shown))
                            ELSE Some(to_json(calculate_and_store_tissue_volumes(
                                         shown, k, available, oScene).patient))
                /\ oObjects' = oObjects \cup {cv.name}
                /\ oLast' = IF imp # "none"
                            THEN Outcome("visualize_series", "CANCELLED", imp,
                                         {series_uid}, {series_uid}, {series_uid})
                            ELSE Outcome("visualize_series", "FINISHED", "none",
                                         {series_uid}, {series_uid}, {series_uid})
        /\ UNCHANGED <<oScene, oTool, oDisk>>

\* The loop over the selected series of set_tool (lines 945-975), from the
\* series at position i of todo on: the loop ends at the first exception.
\* acc is [patient, exc, attempted, assembled]; available tells whether the
\* scene holds volume data for the measurements of line 973, props the
\* properties the scene has.
RECURSIVE AutoVisualize(_, _, _, _, _, _)
AutoVisualize(disk, todo, i, acc, available, props) ==
    IF i > Len(todo) THEN acc
    ELSE
      LET k   == todo[i]
          uid == acc.patient.series[k].fields.series_instance_uid
          ld  == LoadSlices(disk, acc.patient.series[k].fields.file_paths.items)
          cv  == CallCreateVolume({"slices", "series_number"}, ld.slices)
          imp == ImportFromMeasurements("calculate_and_store_tissue_volumes")
      IN  IF ld.exc THEN [acc EXCEPT !.exc = "load_slice"]
          ELSE IF ld.count >= MIN_SLICES_REQUIRED
          THEN IF cv.exc # "none"
               THEN [acc EXCEPT !.exc = cv.exc, !.attempted = @ \cup {uid}]
               ELSE IF imp # "none"
               THEN [patient |->
                        [SetSeries(SetSeries(acc.patient, k, "is_loaded", TRUE),
                                   k, "is_visible", TRUE)
                           EXCEPT !.volume_objects = DictSet(@, uid, cv.name)],
                     exc |-> imp,
                     attempted |-> acc.attempted \cup {uid},
                     assembled |-> acc.assembled \cup {uid}]
               ELSE AutoVisualize(disk, todo, i + 1,
                        [patient |-> calculate_and_store_tissue_volumes(
                            [SetSeries(SetSeries(acc.patient, k, "is_loaded", TRUE),
                                       k, "is_visible", TRUE)
                               EXCEPT !.volume_objects = DictSet(@, uid, cv.name)],
                            k, available, props).patient,
                         exc |-> "none",
                         attempted |-> acc.attempted \cup {uid},
                         assembled |-> acc.assembled \cup {uid}],
                        available, props)
          ELSE AutoVisualize(disk, todo, i + 1, acc, available, props)

\* "for s in patient.series: s.is_loaded = False; s.is_visible = False"
ResetLoaded(patient) ==
    [patient EXCEPT !.series =
        [k \in 1..Len(patient.series) |->
            [patient.series[k] EXCEPT !.fields.is_loaded = FALSE,
                                      !.fields.is_visible = FALSE]]]

\* [s for s in patient.series if s.is_selected], as positions in the list
SelectedSeries(patient) ==
    SelectSeq([k \in 1..Len(patient.series) |-> k],
              LAMBDA k : patient.series[k].fields.is_selected)

\* IMPORT_OT_dicom_set_tool.execute (lines 918-1003).  Line 919 assigns the
\* tool; line 922, outside every try block, reads
\* scene.center_volume_at_origin: in a scene without the property the
\* operator ends there ("raised").  One try block holds the whole
\* auto-visualization: an exception in it is logged, the record is not
\* written, and the operator returns FINISHED.  The centering of lines
\* 981-996 moves objects and leaves the record and the set of objects as
\* they are.
SetTool(tool) ==
    \E centre \in {SceneAccess(oScene, "center_volume_at_origin")} :
    \E patient \in {IF IsNone(oData) THEN None ELSE from_json(oData[1])} :
    \E todo \in {IF IsNone(patient) THEN << >> ELSE SelectedSeries(patient[1])} :
    \E available \in BOOLEAN :
    \E run \in {IF IsNone(patient) THEN << >>
                ELSE AutoVisualize(oDisk, todo, 1,
                         [patient |-> ResetLoaded(patient[1]), exc |-> "none",
                          attempted |-> {}, assembled |-> {}], available,
                         oScene)} :
        /\ oTool' = tool
        /\ IF centre # "none"
           THEN /\ oLast' = Outcome("set_tool", "raised", centre, {}, {}, {})
                /\ UNCHANGED <<oData, oObjects>>
           ELSE IF tool # "VISUALIZATION" \/ IsNone(oData)
           THEN /\ oLast' = Outcome("set_tool", "FINISHED", "none", {}, {}, {})
                /\ UNCHANGED <<oData, oObjects>>
           ELSE IF IsNone(patient)
           THEN /\ oLast' = Outcome("set_tool", "FINISHED", "from_json", {}, {}, {})
                /\ UNCHANGED <<oData, oObjects>>
           ELSE /\ oObjects' = ClearAllVolumes(oObjects) \cup
                                {run.patient.volume_objects.items[j][2] :
                                   j \in {j \in 1..Len(run.patient.volume_objects.items) :
                                            run.patient.volume_objects.items[j][1]
                                                \in run.assembled}}
                /\ oData' = IF run.exc = "none" /\ Len(todo) > 0
                            THEN Some(to_json(run.patient)) ELSE oData
                /\ oLast' = Outcome("set_tool", "FINISHED", run.exc,
                                {patient[1].series[todo[i]].fields.series_instance_uid :
                                    i \in 1..Len(todo)},
                                run.attempted, run.assembled)
        /\ UNCHANGED <<oScene, oDisk>>

\* IMPORT_OT_dicom_toggle_series_selection.execute (lines 1194-1211)
ToggleSelection(series_uid) ==
    \E patient \in {IF IsNone(oData) THEN None ELSE from_json(oData[1])} :
    \E k \in {IF IsNone(patient) THEN 0 ELSE get_series_by_uid(patient[1], series_uid)} :
        /\ IF IsNone(patient)
           THEN /\ oLast' = Outcome("toggle_series_selection", "CANCELLED", "none",
                                    {series_uid}, {}, {})
                /\ UNCHANGED oData
           ELSE /\ oData' = IF k = 0 THEN oData
                            ELSE Some(to_json(SetSeries(patient[1], k, "is_selected",
                                        ~patient[1].series[k].fields.is_selected)))
                /\ oLast' = Outcome("toggle_series_selection", "FINISHED", "none",
                                    {series_uid}, {}, {})
        /\ UNCHANGED <<oScene, oTool, oDisk, oObjects>>

\* IMPORT_OT_dicom_toggle_series_visibility.execute (lines 1223-1252)
ToggleVisibility(series_uid, visibility_type) ==
    \E patient \in {IF IsNone(oData) THEN None ELSE from_json(oData[1])} :
    \E k \in {IF IsNone(patient) THEN 0 ELSE get_series_by_uid(patient[1], series_uid)} :
        /\ IF IsNone(patient)
           THEN /\ oLast' = Outcome("toggle_series_visibility", "CANCELLED", "none",
                                    {series_uid}, {}, {})
                /\ UNCHANGED oData
           ELSE /\ oData' =
                     IF k = 0 THEN oData
                     ELSE IF ~patient[1].series[k].fields.is_loaded THEN oData
                     ELSE IF visibility_type = "volume"
                     THEN Some(to_json(SetSeries(patient[1], k, "show_volume",
                                 ~patient[1].series[k].fields.show_volume)))
                     ELSE IF visibility_type = "bone"
                     THEN Some(to_json(SetSeries(patient[1], k, "show_bone",
                                 ~patient[1].series[k].fields.show_bone)))
                     ELSE Some(to_json(patient[1]))
                /\ oLast' = Outcome("toggle_series_visibility", "FINISHED", "none",
                                    {series_uid}, {}, {})
        /\ UNCHANGED <<oScene, oTool, oDisk, oObjects>>

\* "series.is_loaded = False; series.is_visible = False;
\*  series.tissue_volumes = {}" for every series (lines 1401-1404)
ResetForReload(patient) ==
    [patient EXCEPT !.series =
        [k \in 1..Len(patient.series) |->
            [patient.series[k] EXCEPT !.fields.is_loaded = FALSE,
                                      !.fields.is_visible = FALSE,
                                      !.fields.tissue_volumes = PyDict(<< >>)]]]

\* IMPORT_OT_dicom_reload_patient.execute (lines 1378-1422): the objects are
\* removed and the series reset; volume_objects is written back as it was.
ReloadPatient ==
    \E patient \in {IF IsNone(oData) THEN None ELSE from_json(oData[1])} :
        /\ IF IsNone(patient)
           THEN /\ oLast' = Outcome("reload_patient", "CANCELLED", "none", {}, {}, {})
                /\ UNCHANGED <<oData, oObjects, oTool>>
           ELSE /\ oObjects' = ClearAllVolumes(oObjects)
                /\ oTool' = "NONE"
                /\ oData' = Some(to_json(ResetForReload(patient[1])))
                /\ oLast' = Outcome("reload_patient", "FINISHED", "none", {}, {}, {})
        /\ UNCHANGED <<oScene, oDisk>>

OperatorsIdle ==
    /\ oScene = {} /\ oData = None /\ oTool = "idle" /\ oDisk = << >> /\ oObjects = {}
    /\ oLast = << >>

\* No operator writes a record into a scene that holds none: each one
\* returns, or skips the part that writes, when scene.dicom_patient_data is
\* empty (lines 750-752, 925, 1196, 1224 and 1381-1383).
RecordStaysEmpty == IsNone(oData)

\* C19: after any sequence of the operators that rewrite the persisted
\* patient record (visualize series, set tool, toggle selection, toggle
\* visibility, reload), every key of Patient.volume_objects is the
\* series_instance_uid of a series in Patient.series.
C19_VolumeKeysAreSeries ==
    ~IsNone(oData) =>
        {oData[1].volume_objects.items[k][1] :
            k \in 1..Len(oData[1].volume_objects.items)}
          \subseteq {oData[1].series[k].series_instance_uid :
                        k \in 1..Len(oData[1].series)}

\* The number of slices the files of the series with the uid give, -1 when
\* a file makes load_slice raise.
LoadableSlices(uid) ==
    LET k  == CHOOSE j \in 1..Len(OperatorUids) : OperatorUids[j] = uid
        ld == LoadSlices(oDisk, OperatorFiles[k])
    IN  IF ld.exc THEN -1 ELSE ld.count

\* The assembly of the selected series with the uid failed in the last run:
\* its files give too few slices, load_slice raised on one, or its
\* create_volume call raised.
AssemblyFailed(uid) ==
    \/ LoadableSlices(uid) < MIN_SLICES_REQUIRED
    \/ uid \in oLast.attempted \ oLast.assembled

\* C20: when the VISUALIZATION tool auto-visualizes several selected series
\* and the assembly of one of them fails, the failure does not touch the
\* others - every selected series whose files give at least two slices has
\* its assembly attempted - and the persisted record marks exactly the
\* assembled series as is_loaded, each with a volume_objects entry.
C20_SeriesIsolation ==
    (/\ oLast.op = "set_tool" /\ oTool = "VISUALIZATION" /\ ~IsNone(oData)
     /\ Cardinality(oLast.selected) >= 2
     /\ \E uid \in oLast.selected : AssemblyFailed(uid)) =>
        \A patient \in {from_json(oData[1])} :
            /\ \A uid \in oLast.selected :
                  LoadableSlices(uid) >= MIN_SLICES_REQUIRED => uid \in oLast.attempted
            /\ {patient[1].series[k].fields.series_instance_uid :
                   k \in {j \in 1..Len(patient[1].series) :
                            patient[1].series[j].fields.is_loaded}}
                 = oLast.assembled
            /\ oLast.assembled \subseteq DictKeys(patient[1].volume_objects)

\* C27: in the persisted patient record, after any sequence of visualize
\* series, set tool, toggle selection, toggle visibility and reload, a series
\* with is_loaded = false has an empty tissue_volumes cache.
C27_UnloadedSeriesHasNoTissueVolumes ==
    ~IsNone(oData) =>
        \A k \in 1..Len(oData[1].series) :
            ~oData[1].series[k].is_loaded =>
                oData[1].series[k].tissue_volumes.items = << >>

\* C28: in the persisted patient record every series has
\* is_visible = is_loaded after any sequence of visualize series, set tool,
\* toggle selection, toggle visibility and reload: the two flags are set
\* together and reset together.
C28_VisibleIffLoaded ==
    ~IsNone(oData) =>
        \A k \in 1..Len(oData[1].series) :
            oData[1].series[k].is_visible = oData[1].series[k].is_loaded


(***************************************************************************)
(* Landmarks and measurements (measurements/operators.py): load template,  *)
(* assign landmark, clear landmark, clear all.                             *)
(*                                                                         *)
(* scene.dicom_landmarks and scene.dicom_measurements are collections of   *)
(* the scene; the load operator (lines 41 and 49) is the one place that    *)
(* adds entries to them.  A session starts with both empty.  The viewport  *)
(* objects of visualization.py are not part of the state modelled.         *)
(***************************************************************************)

\* The json files of presets/measurements, by template name: the keys the
\* load operator reads (lines 40-58).
TemplateFiles ==
    [knee |->
        [header |-> [name |-> "knee", label |-> "Knee"],
         landmarks |-> << [id |-> "TT", label |-> "Tibial tuberosity"],
                          [id |-> "TG", label |-> "Trochlear groove"],
                          [id |-> "PC", label |-> "Posterior condyle"] >>,
         measurements |->
            << [id |-> "tt_tg", label |-> "TT-TG", type |-> "distance_2d",
                projection_plane |-> "axial", landmarks |-> <<"TT", "TG">>],
               [id |-> "tg_pc", label |-> "TG-PC", type |-> "distance_3d",
                projection_plane |-> "axial", landmarks |-> <<"TG", "PC">>],
               [id |-> "hu_pc", label |-> "HU", type |-> "hu_value",
                projection_plane |-> "axial", landmarks |-> <<"PC">>] >>],
     hip |->
        [header |-> [name |-> "hip", label |-> "Hip"],
         landmarks |-> << [id |-> "FH", label |-> "Femoral head"],
                          [id |-> "GT", label |-> "Greater trochanter"] >>,
         measurements |->
            << [id |-> "fh_gt", label |-> "FH-GT", type |-> "distance_2d",
                projection_plane |-> "coronal", landmarks |-> <<"FH", "GT">>] >>]]

\* The template names the load operator is invoked with: "none" has no file.
TemplateNames == DOMAIN TemplateFiles \cup {"none"}

\* MeasurementTemplate(data) (measurement_templates.py lines 13-23): the
\* attributes __init__ sets.  The "landmarks" key of the data is not read.
MeasurementTemplate(data) ==
    [name |-> data.header.name, label |-> data.header.label,
     description |-> "", modality |-> "CT", version |-> "1.0",
     measurements |-> data.measurements]

\* load_measurement_template (lines 46-71): None when the file is missing
load_measurement_template(template_name) ==
    IF template_name \in DOMAIN TemplateFiles
    THEN Some(MeasurementTemplate(TemplateFiles[template_name]))
    ELSE None

\* A python string of landmark ids as a sequence of tokens: an id is one
\* token (none for the empty string), "," is the separator.
StrTokens(id) == IF id = "" THEN << >> ELSE <<id>>

\* ','.join(landmark_ids)
RECURSIVE StrJoin(_)
StrJoin(ids) ==
    IF Len(ids) = 0 THEN << >>
    ELSE IF Len(ids) = 1 THEN StrTokens(ids[1])
    ELSE StrTokens(ids[1]) \o <<",">> \o StrJoin(Tail(ids))

\* landmark_ids.split(','): the pieces between the separators; the empty
\* string gives one empty piece.
RECURSIVE StrSplit(_)
StrSplit(s) ==
    LET commas == {i \in 1..Len(s) : s[i] = ","}
    IN  IF commas = {} THEN <<s>>
        ELSE LET i == CHOOSE c \in commas : \A d \in commas : c <= d
             IN  <<SubSeq(s, 1, i - 1)>> \o StrSplit(SubSeq(s, i + 1, Len(s)))

\* required_landmark_ids: the ids the pieces spell
RequiredLandmarkIds(measurement) ==
    LET pieces == StrSplit(measurement.landmark_ids)
    IN  [k \in 1..Len(pieces) |->
            IF pieces[k] = << >> THEN "" ELSE pieces[k][1]]

\* The unit of a measurement after lines 60-66: 'mm' for a type holding
\* "distance", the degree sign for one holding "angle", 'HU' for hu_value;
\* no branch is taken for another type and the unit keeps the default of
\* the property, 'mm' (measurements/properties.py line 88).
UnitOfType(type) ==
    IF type \in {"distance_2d", "distance_3d", "distance_perpendicular_2d"}
    THEN "mm"
    ELSE IF type \in {"angle_2d", "angle_3d"} THEN "°"
    ELSE IF type = "hu_value" THEN "HU"
    ELSE "mm"

\* The landmark entries lines 40-45 create
LandmarkEntries(landmark_defs) ==
    [k \in 1..Len(landmark_defs) |->
        [landmark_id |-> landmark_defs[k].id, label |-> landmark_defs[k].label,
         description |-> "", x |-> 0, y |-> 0, z |-> 0, is_placed |-> FALSE]]

\* The measurement entries lines 48-66 create for definitions whose type is
\* an item of the measurement_type enum (properties.py lines 46-57); line
\* 52 raises TypeError for any other type.
MeasurementEntries(measurement_defs) ==
    [k \in 1..Len(measurement_defs) |->
        [measurement_id |-> measurement_defs[k].id,
         label |-> measurement_defs[k].label,
         measurement_type |-> measurement_defs[k].type,
         description |-> "",
         projection_plane |-> measurement_defs[k].projection_plane,
         status |-> "PENDING",
         landmark_ids |-> StrJoin(measurement_defs[k].landmarks),
         value |-> 0,
         unit |-> UnitOfType(measurement_defs[k].type)]]

\* The cursor locations of a session, in metres, as numerators over CursorDen
CursorDen == 1000

CursorLocations == {<<0, 0, 0>>, <<3, 0, 0>>, <<0, 4, 0>>}

\* "cursor_loc.x * 1000": metres to millimetres
CursorMm(c) == (c * MM_PER_METER) \div CursorDen

\* The landmark_index arguments: 0-based, one below and one above the
\* longest collection included.
MaxLandmarks == 3

LandmarkIndexes == -1 .. MaxLandmarks

TemplateOutcome(op, result, exc, argument) ==
    [op |-> op, result |-> result, exc |-> exc, argument |-> argument]

LandmarksInit ==
    /\ tTemplate = ""
    /\ tLandmarks = << >>
    /\ tMeasurements = << >>
    /\ tActive = -1
    /\ tLast = TemplateOutcome("none", "none", "none", "none")

\* DICOM_OT_load_measurement_template.execute (lines 20-72).  template is
\* the MeasurementTemplate: reading an attribute it does not have raises
\* AttributeError, after the collections were cleared.
LoadMeasurementTemplate(template_name) ==
    \E template \in {load_measurement_template(template_name)} :
        IF IsNone(template)
        THEN /\ tLast' = TemplateOutcome("load_measurement_template", "CANCELLED",
                                         "none", template_name)
             /\ UNCHANGED <<tTemplate, tLandmarks, tMeasurements, tActive>>
        ELSE /\ tTemplate' = template_name
             /\ tActive' = -1
             /\ IF "landmarks" \notin DOMAIN template[1]
                THEN /\ tLandmarks' = << >>
                     /\ tMeasurements' = << >>
                     /\ tLast' = TemplateOutcome("load_measurement_template",
                                     "raised", "AttributeError", template_name)
                ELSE /\ tLandmarks' = LandmarkEntries(template[1].landmarks)
                     /\ tMeasurements' = MeasurementEntries(template[1].measurements)
                     /\ tLast' = TemplateOutcome("load_measurement_template",
                                     "FINISHED", "none", template_name)

\* _find_landmark (lines 146-151): the position of the first landmark with
\* the id, 0 for None
find_landmark(landmarks, landmark_id) ==
    LET hits == {k \in 1..Len(landmarks) : landmarks[k].landmark_id = landmark_id}
    IN  IF hits = {} THEN 0 ELSE CHOOSE k \in hits : \A j \in hits : k <= j

\* project_point_to_plane (calculations.py lines 10-30)
project_point_to_plane(point, plane) ==
    IF plane = "axial" THEN <<point[1], point[2]>>
    ELSE IF plane = "sagittal" THEN <<point[2], point[3]>>
    ELSE IF plane = "coronal" THEN <<point[1], point[3]>>
    ELSE <<point[1], point[2]>>

\* np.linalg.norm of a vector whose squared length is a perfect square
NormOfSquare(n) == CHOOSE r \in 0..n : r * r = n

\* calculate_distance_2d (calculations.py lines 33-52)
calculate_distance_2d(point1, point2, plane) ==
    LET p1 == project_point_to_plane(point1, plane)
        p2 == project_point_to_plane(point2, plane)
    IN  NormOfSquare((p2[1] - p1[1]) * (p2[1] - p1[1])
                       + (p2[2] - p1[2]) * (p2[2] - p1[2]))

\* calculate_distance_3d (calculations.py lines 55-71)
calculate_distance_3d(point1, point2) ==
    NormOfSquare((point2[1] - point1[1]) * (point2[1] - point1[1])
                   + (point2[2] - point1[2]) * (point2[2] - point1[2])
                   + (point2[3] - point1[3]) * (point2[3] - point1[3]))

\* _calculate_measurement (lines 153-180): the value after the call.  The
\* four-point results are kept as the call that computes them.
calculate_measurement(measurement, points) ==
    LET type == measurement.measurement_type
    IN  IF type = "distance_2d" /\ Len(points) = 2
        THEN calculate_distance_2d(points[1], points[2], measurement.projection_plane)
        ELSE IF type = "distance_3d" /\ Len(points) = 2
        THEN calculate_distance_3d(points[1], points[2])
        ELSE IF type \in {"distance_perpendicular_2d", "angle_2d", "angle_3d"}
                /\ Len(points) = 4
        THEN [call |-> type, points |-> points]
        ELSE IF type = "hu_value" /\ Len(points) = 1 THEN 0
        ELSE measurement.value

\* _recalculate_measurements (lines 113-144): every measurement that uses
\* the landmark is COMPLETED with its value when all its landmarks are
\* found and placed, PENDING otherwise.
recalculate_measurements(landmarks, measurements, landmark_id) ==
    [k \in 1..Len(measurements) |->
        LET required == RequiredLandmarkIds(measurements[k])
            found == [j \in 1..Len(required) |-> find_landmark(landmarks, required[j])]
            all_placed == \A j \in 1..Len(required) :
                             found[j] # 0 /\ landmarks[found[j]].is_placed
        IN  IF \A j \in 1..Len(required) : required[j] # landmark_id
            THEN measurements[k]
            ELSE IF all_placed
            THEN [measurements[k] EXCEPT
                    !.value = calculate_measurement(measurements[k],
                                 [j \in 1..Len(required) |->
                                     <<landmarks[found[j]].x, landmarks[found[j]].y,
                                       landmarks[found[j]].z>>]),
                    !.status = "COMPLETED"]
            ELSE [measurements[k] EXCEPT !.status = "PENDING"]]

\* DICOM_OT_assign_landmark.execute (lines 83-111)
AssignLandmark(landmark_index, cursor_loc) ==
    IF landmark_index < 0 \/ landmark_index >= Len(tLandmarks)
    THEN /\ tLast' = TemplateOutcome("assign_landmark", "CANCELLED", "none",
                                     landmark_index)
         /\ UNCHANGED <<tTemplate, tLandmarks, tMeasurements, tActive>>
    ELSE \E landmarks \in {[tLandmarks EXCEPT
                              ![landmark_index + 1].x = CursorMm(cursor_loc[1]),
                              ![landmark_index + 1].y = CursorMm(cursor_loc[2]),
                              ![landmark_index + 1].z = CursorMm(cursor_loc[3]),
                              ![landmark_index + 1].is_placed = TRUE]} :
         /\ tLandmarks' = landmarks
         /\ tMeasurements' = recalculate_measurements(landmarks, tMeasurements,
                                 landmarks[landmark_index + 1].landmark_id)
         /\ tLast' = TemplateOutcome("assign_landmark", "FINISHED", "none",
                                     landmark_index)
         /\ UNCHANGED <<tTemplate, tActive>>

\* DICOM_OT_clear_landmark.execute (lines 192-222)
ClearLandmark(landmark_index) ==
    IF landmark_index < 0 \/ landmark_index >= Len(tLandmarks)
    THEN /\ tLast' = TemplateOutcome("clear_landmark", "CANCELLED", "none",
                                     landmark_index)
         /\ UNCHANGED <<tTemplate, tLandmarks, tMeasurements, tActive>>
    ELSE /\ tLandmarks' = [tLandmarks EXCEPT
                              ![landmark_index + 1].is_placed = FALSE,
                              ![landmark_index + 1].x = 0,
                              ![landmark_index + 1].y = 0,
                              ![landmark_index + 1].z = 0]
         /\ tMeasurements' =
              [k \in 1..Len(tMeasurements) |->
                  IF \E j \in 1..Len(RequiredLandmarkIds(tMeasurements[k])) :
                        RequiredLandmarkIds(tMeasurements[k])[j]
                            = tLandmarks[landmark_index + 1].landmark_id
                  THEN [tMeasurements[k] EXCEPT !.status = "PENDING", !.value = 0]
                  ELSE tMeasurements[k]]
         /\ tLast' = TemplateOutcome("clear_landmark", "FINISHED", "none",
                                     landmark_index)
         /\ UNCHANGED <<tTemplate, tActive>>

\* DICOM_OT_clear_measurements.execute (lines 230-247)
ClearMeasurements ==
    /\ tLandmarks' = << >>
    /\ tMeasurements' = << >>
    /\ tTemplate' = ""
    /\ tActive' = -1
    /\ tLast' = TemplateOutcome("clear_measurements", "FINISHED", "none", "none")

LandmarksIdle ==
    /\ tTemplate = "" /\ tLandmarks = << >> /\ tMeasurements = << >>
    /\ tActive = 0 /\ tLast = << >>

\* The collections stay empty: the load operator clears them and raises at
\* line 40 before it adds an entry, or finds no template file.
CollectionsStayEmpty == tLandmarks = << >> /\ tMeasurements = << >>

\* The landmark ids of the scene.
SceneLandmarkIds == {tLandmarks[k].landmark_id : k \in 1..Len(tLandmarks)}

\* The ids a measurement requires.
RequiredSet(measurement) ==
    {RequiredLandmarkIds(measurement)[j] :
        j \in 1..Len(RequiredLandmarkIds(measurement))}

\* All the landmarks a measurement requires are placed.
AllRequiredPlaced(measurement) ==
    \A id \in RequiredSet(measurement) :
        \E k \in 1..Len(tLandmarks) :
            tLandmarks[k].landmark_id = id /\ tLandmarks[k].is_placed

\* A measurement of the scene is COMPLETED exactly when all its required
\* landmarks are placed.
StatusFollowsLandmarks ==
    \A k \in 1..Len(tMeasurements) :
        RequiredSet(tMeasurements[k]) \subseteq SceneLandmarkIds =>
            (tMeasurements[k].status = "COMPLETED"
                <=> AllRequiredPlaced(tMeasurements[k]))

\* Clearing a landmark leaves every measurement that requires it PENDING
\* with value 0.
ClearedLandmarkResets ==
    (tLast.op = "clear_landmark" /\ tLast.result = "FINISHED") =>
        /\ ~tLandmarks[tLast.argument + 1].is_placed
        /\ \A k \in 1..Len(tMeasurements) :
              tLandmarks[tLast.argument + 1].landmark_id
                    \in RequiredSet(tMeasurements[k]) =>
                  /\ tMeasurements[k].status = "PENDING"
                  /\ tMeasurements[k].value = 0

\* C29: after any sequence of load-template, assign-landmark and
\* clear-landmark operations a measurement whose landmarks the scene holds
\* is COMPLETED if and only if all its required landmarks are placed;
\* clearing a required landmark returns it to PENDING with value 0;
\* load-template and clear-all leave every landmark unplaced and every
\* measurement PENDING.
C29_MeasurementStatus ==
    /\ StatusFollowsLandmarks
    /\ ClearedLandmarkResets
    /\ (tLast.op \in {"load_measurement_template", "clear_measurements"}
            /\ tLast.result # "CANCELLED") =>
          /\ \A k \in 1..Len(tLandmarks) : ~tLandmarks[k].is_placed
          /\ \A k \in 1..Len(tMeasurements) : tMeasurements[k].status = "PENDING"

ClassifyIdle == cFile = << >> /\ cLabel = "none" /\ cPc = "idle"

ResolveIdle == rFiles = << >> /\ rAnalysis = << >> /\ rSeries = << >> /\ rPc = "idle"

PatientIdle ==
    /\ pSpec = << >> /\ pModel = None /\ pText = None /\ pRestored = None
    /\ pText2 = None /\ pPc = "idle"

LoadIdle ==
    /\ lDecoder = TRUE /\ lDir = << >> /\ scenePatient = None
    /\ lResult = "idle" /\ lReport = "none" /\ lGrouped = FALSE
    /\ lBefore = << >> /\ lTool = "idle" /\ lObjects = {}
    /\ lFolder = None

InitClassify == ClassifyInit /\ ResolveIdle /\ PatientIdle /\ LoadIdle /\ VolumeIdle /\ SliceIdle /\ AssemblyIdle /\ MeasureIdle /\ OperatorsIdle /\ LandmarksIdle

NextClassify == Classify /\ UNCHANGED <<rvars, pvars, lvars, vvars, svars, avars, mvars, ovars, tvars>>

InitPatient == PatientInit /\ ClassifyIdle /\ ResolveIdle /\ LoadIdle /\ VolumeIdle /\ SliceIdle /\ AssemblyIdle /\ MeasureIdle /\ OperatorsIdle /\ LandmarksIdle

NextPatient ==
    \/ Build /\ UNCHANGED <<cvars, rvars, lvars, vvars, svars, avars, mvars, ovars, tvars>>
    \/ Serialize /\ UNCHANGED <<cvars, rvars, lvars, vvars, svars, avars, mvars, ovars, tvars>>
    \/ Deserialize /\ UNCHANGED <<cvars, rvars, lvars, vvars, svars, avars, mvars, ovars, tvars>>
    \/ Reserialize /\ UNCHANGED <<cvars, rvars, lvars, vvars, svars, avars, mvars, ovars, tvars>>

InitLoad == LoadInit /\ ClassifyIdle /\ ResolveIdle /\ PatientIdle /\ VolumeIdle /\ SliceIdle /\ AssemblyIdle /\ MeasureIdle /\ OperatorsIdle /\ LandmarksIdle

NextLoad ==
    \/ LoadFromFolder /\ UNCHANGED <<cvars, rvars, pvars, vvars, svars, avars, mvars, ovars, tvars>>
    \/ LoadPatient /\ UNCHANGED <<cvars, rvars, pvars, vvars, svars, avars, mvars, ovars, tvars>>

SpecLoad == InitLoad /\ [][NextLoad]_vars

SpecPatient == InitPatient /\ [][NextPatient]_vars

SpecClassify == InitClassify /\ [][NextClassify]_vars

InitResolve == ResolveInit /\ ClassifyIdle /\ PatientIdle /\ LoadIdle /\ VolumeIdle /\ SliceIdle /\ AssemblyIdle /\ MeasureIdle /\ OperatorsIdle /\ LandmarksIdle

NextResolve == Resolve /\ UNCHANGED <<cvars, pvars, lvars, vvars, svars, avars, mvars, ovars, tvars>>

SpecResolve == InitResolve /\ [][NextResolve]_vars

InitVolume ==
    VolumeInit /\ ClassifyIdle /\ ResolveIdle /\ PatientIdle /\ LoadIdle
        /\ SliceIdle /\ AssemblyIdle /\ MeasureIdle /\ OperatorsIdle /\ LandmarksIdle

NextVolume == CreateVolume /\ UNCHANGED <<cvars, rvars, pvars, lvars, svars, avars, mvars, ovars, tvars>>

SpecVolume == InitVolume /\ [][NextVolume]_vars

InitSlice ==
    SliceInit /\ ClassifyIdle /\ ResolveIdle /\ PatientIdle /\ LoadIdle
        /\ VolumeIdle /\ AssemblyIdle /\ MeasureIdle /\ OperatorsIdle /\ LandmarksIdle

NextSlice == LoadSlice /\ UNCHANGED <<cvars, rvars, pvars, lvars, vvars, avars, mvars, ovars, tvars>>

SpecSlice == InitSlice /\ [][NextSlice]_vars

InitAssembly ==
    AssemblyInit /\ ClassifyIdle /\ ResolveIdle /\ PatientIdle /\ LoadIdle
        /\ VolumeIdle /\ SliceIdle /\ MeasureIdle /\ OperatorsIdle /\ LandmarksIdle

NextAssembly ==
    \/ \E slices \in SessionSlices, n \in SeriesNumbers :
          AssembleVolume(slices, n)
            /\ UNCHANGED <<cvars, rvars, pvars, lvars, vvars, svars, mvars, ovars, tvars>>
    \/ \E tps \in SeqsUpTo(SessionTimePoints, 0, Max4DFrames), n \in SeriesNumbers :
          AssembleSequence(tps, n)
            /\ UNCHANGED <<cvars, rvars, pvars, lvars, vvars, svars, mvars, ovars, tvars>>

SpecAssembly == InitAssembly /\ [][NextAssembly]_vars

InitMeasure ==
    MeasureInit /\ ClassifyIdle /\ ResolveIdle /\ PatientIdle /\ LoadIdle
        /\ VolumeIdle /\ SliceIdle /\ AssemblyIdle /\ OperatorsIdle /\ LandmarksIdle

NextMeasure ==
    CalculateTissueVolume
        /\ UNCHANGED <<cvars, rvars, pvars, lvars, vvars, svars, avars, ovars, tvars>>

SpecMeasure == InitMeasure /\ [][NextMeasure]_vars

InitOperators ==
    OperatorsInit /\ ClassifyIdle /\ ResolveIdle /\ PatientIdle /\ LoadIdle
        /\ VolumeIdle /\ SliceIdle /\ AssemblyIdle /\ MeasureIdle
        /\ LandmarksIdle

OtherVarsOfOperators == <<cvars, rvars, pvars, lvars, vvars, svars, avars, mvars, tvars>>

NextOperators ==
    \/ \E uid \in OperatorUidArguments :
          VisualizeSeries(uid) /\ UNCHANGED OtherVarsOfOperators
    \/ \E tool \in Tools :
          SetTool(tool) /\ UNCHANGED OtherVarsOfOperators
    \/ \E uid \in OperatorUidArguments :
          ToggleSelection(uid) /\ UNCHANGED OtherVarsOfOperators
    \/ \E uid \in OperatorUidArguments, type \in {"volume", "bone"} :
          ToggleVisibility(uid, type) /\ UNCHANGED OtherVarsOfOperators
    \/ ReloadPatient /\ UNCHANGED OtherVarsOfOperators

SpecOperators == InitOperators /\ [][NextOperators]_vars

InitLandmarks ==
    LandmarksInit /\ ClassifyIdle /\ ResolveIdle /\ PatientIdle /\ LoadIdle
        /\ VolumeIdle /\ SliceIdle /\ AssemblyIdle /\ MeasureIdle
        /\ OperatorsIdle

OtherVarsOfLandmarks == <<cvars, rvars, pvars, lvars, vvars, svars, avars, mvars, ovars>>

NextLandmarks ==
    \/ \E name \in TemplateNames :
          LoadMeasurementTemplate(name) /\ UNCHANGED OtherVarsOfLandmarks
    \/ \E index \in LandmarkIndexes, cursor \in CursorLocations :
          AssignLandmark(index, cursor) /\ UNCHANGED OtherVarsOfLandmarks
    \/ \E index \in LandmarkIndexes :
          ClearLandmark(index) /\ UNCHANGED OtherVarsOfLandmarks
    \/ ClearMeasurements /\ UNCHANGED OtherVarsOfLandmarks

SpecLandmarks == InitLandmarks /\ [][NextLandmarks]_vars

=============================================================================
